---- MODULE Spec2Model ----
(***************************************************************************)
(* Calgary traffic incidents API: the ingestion commands (load_weather,    *)
(* load_collisions, build_city_weather), the collision filter and the     *)
(* query views (list, stats, near) as state machines over the four        *)
(* persisted tables.                                                       *)
(*                                                                         *)
(* Conventions.  An optional value is a sequence of length <= 1: None is   *)
(* <<>> and Some(v) is <<v>>.  Measurements are fixed-point integers:      *)
(* temperature, precipitation, snow and gust in tenths of their unit, so   *)
(* the 0.2 mm threshold is 2; coordinates in micro-degrees; distances in   *)
(* micro-kilometres (millimetres).  A calendar date is its day number in   *)
(* 2024 (1 = 2024-01-01, a Monday).                                        *)
(***************************************************************************)
EXTENDS Integers, Sequences, FiniteSets, TLC

VARIABLES stations, observations, city, collisions, lastRun, response, cache

vars == <<stations, observations, city, collisions, lastRun, response, cache>>

None == <<>>

Some(v) == <<v>>

\* ------------------------------------------------------------------------
\* Bounds of the model
\* ------------------------------------------------------------------------
MaxRows == 2

NumAggStations == 2

MaxSeed == 3

MaxBatch == 2

\* ------------------------------------------------------------------------
\* Generic helpers
\* ------------------------------------------------------------------------
RECURSIVE SumOver(_, _)
SumOver(S, f) ==
    IF S = {} THEN 0
    ELSE LET x == CHOOSE y \in S : TRUE
         IN x[f] [1] + SumOver(S \ {x}, f)

MaxId(T) == IF T = {} THEN 0 ELSE CHOOSE n \in {r.id : r \in T} : \A r \in T : r.id <= n

SeqsUpTo(S, n) == UNION {[1..k -> S] : k \in 1..n}

\* ------------------------------------------------------------------------
\* core/models.py: enumerations
\* ------------------------------------------------------------------------
WeatherDay == [DRY |-> "DRY", WET |-> "WET", SNOWY |-> "SNY"]

Quadrant == [NW |-> "NW", NE |-> "NE", SW |-> "SW", SE |-> "SE", UNKNOWN |-> "UNK"]

\* ------------------------------------------------------------------------
\* load_weather.py
\* ------------------------------------------------------------------------
\* A CSV cell: k is "num" for numeric text (v its fixed-point value), "T" and
\* "M" for the sentinels, "empty" for the empty string, "junk" for any other
\* text.
Num(v) == [k |-> "num", v |-> v]

Cell(k) == [k |-> k, v |-> 0]

_coerce_float(val) ==
    CASE val.k = "empty" -> None
      [] val.k = "M" -> None
      [] val.k = "T" -> Some(0)
      [] val.k = "num" -> Some(val.v)
      [] OTHER -> None

\* int(f) truncates toward zero; the cell value is in tenths.
_coerce_int(val) ==
    LET f == _coerce_float(val)
    IN IF f = None THEN None
       ELSE IF f[1] >= 0 THEN Some(f[1] \div 10) ELSE Some(-((-f[1]) \div 10))

\* The Date/Time cell: k = "iso" for YYYY-MM-DD text of day d, "empty" for a
\* missing value, "bad" for text the int()/date() conversion rejects.
ParseObsDate(cell) == IF cell.k = "iso" THEN Some(cell.d) ELSE None

DeriveWeatherDayMutant(snow, precip) ==
    IF precip # None /\ precip[1] >= 2 THEN Some(WeatherDay.WET)
    ELSE IF snow # None /\ snow[1] > 0 THEN Some(WeatherDay.SNOWY)
    ELSE IF (precip # None /\ precip[1] = 0) /\ (snow # None /\ snow[1] = 0)
         THEN Some(WeatherDay.DRY)
    ELSE None

DeriveWeatherDay(snow, precip) ==
    IF snow # None /\ snow[1] > 0 THEN Some(WeatherDay.SNOWY)
    ELSE IF precip # None /\ precip[1] >= 2 THEN Some(WeatherDay.WET)
    ELSE IF (precip # None /\ precip[1] = 0) /\ (snow # None /\ snow[1] = 0)
         THEN Some(WeatherDay.DRY)
    ELSE None

DeriveFreezeDay(t_min) == IF t_min # None THEN Some(t_min[1] < 0) ELSE None

\* WeatherObservation.objects.update_or_create(station=, date=, defaults=)
UpsertObservation(obs, station_id, obs_date, defaults) ==
    LET hit == {o \in obs : o.station = station_id /\ o.date = obs_date}
    IN IF hit = {}
       THEN obs \cup {[id |-> MaxId(obs) + 1, station |-> station_id, date |-> obs_date] @@ defaults}
       ELSE (obs \ hit) \cup {[id |-> o.id, station |-> station_id, date |-> obs_date] @@ defaults : o \in hit}

\* One iteration of the row loop of Command._load_file; db = [st, ob].
WeatherRowStep(db, row) ==
    LET name == IF row.name = "" THEN "Unknown" ELSE row.name
        climate_id == row.climate_id
        lon == _coerce_float(row.lon)
        lat == _coerce_float(row.lat)
        found == {s \in db.st : s.climate_id = climate_id}
    IN IF climate_id = "" THEN db
       ELSE IF found = {} /\ (lon = None \/ lat = None) THEN db
       ELSE
         LET station ==
               IF found = {}
               THEN [id |-> MaxId(db.st) + 1, climate_id |-> climate_id, name |-> name,
                     longitude |-> lon[1], latitude |-> lat[1]]
               ELSE LET s == CHOOSE s \in found : TRUE
                    IN [s EXCEPT !.name = name,
                                 !.longitude = IF lon # None THEN lon[1] ELSE @,
                                 !.latitude = IF lat # None THEN lat[1] ELSE @]
             st2 == (db.st \ found) \cup {station}
             obs_date == ParseObsDate(row.date)
         IN IF obs_date = None THEN [db EXCEPT !.st = st2]
            ELSE
              LET t_max == _coerce_float(row.t_max)
                  t_min == _coerce_float(row.t_min)
                  snow == _coerce_float(row.snow)
                  precip == _coerce_float(row.precip)
                  gust == _coerce_int(row.gust)
                  defaults == [t_max_c |-> t_max, t_min_c |-> t_min,
                               total_snow_cm |-> snow, total_precip_mm |-> precip,
                               gust_kmh |-> gust,
                               weather_day |-> DeriveWeatherDay(snow, precip),
                               freeze_day |-> DeriveFreezeDay(t_min)]
              IN [st |-> st2, ob |-> UpsertObservation(db.ob, station.id, obs_date[1], defaults)]

RECURSIVE LoadWeatherRows(_, _)
LoadWeatherRows(db, rows) ==
    IF rows = <<>> THEN db
    ELSE LoadWeatherRows(WeatherRowStep(db, Head(rows)), Tail(rows))

\* Command.handle of load_weather: every file of the directory, in sorted
\* order, inside one transaction.  files is a sequence of row sequences.
RECURSIVE LoadWeatherFiles(_, _)
LoadWeatherFiles(db, files) ==
    IF files = <<>> THEN db
    ELSE LoadWeatherFiles(LoadWeatherRows(db, Head(files)), Tail(files))

\* ------------------------------------------------------------------------
\* build_city_weather.py
\* ------------------------------------------------------------------------
DayCityMutant(qs) ==
    IF \E o \in qs : o.total_precip_mm # None /\ o.total_precip_mm[1] >= 2 THEN WeatherDay.WET
    ELSE IF \E o \in qs : o.total_snow_cm # None /\ o.total_snow_cm[1] > 0 THEN WeatherDay.SNOWY
    ELSE WeatherDay.DRY

DayCity(qs) ==
    IF \E o \in qs : o.total_snow_cm # None /\ o.total_snow_cm[1] > 0 THEN WeatherDay.SNOWY
    ELSE IF \E o \in qs : o.total_precip_mm # None /\ o.total_precip_mm[1] >= 2 THEN WeatherDay.WET
    ELSE WeatherDay.DRY

FreezeCityMutant(qs) ==
    LET freeze_days == {o \in qs : o.freeze_day # None}
        true_count == Cardinality({o \in freeze_days : o.freeze_day[1]})
    IN IF freeze_days = {} THEN None
       ELSE Some(2 * true_count > Cardinality(freeze_days))

FreezeCity(qs) ==
    LET freeze_days == {o \in qs : o.freeze_day # None}
        true_count == Cardinality({o \in freeze_days : o.freeze_day[1]})
    IN IF freeze_days = {} THEN None
       ELSE Some(2 * true_count >= Cardinality(freeze_days))

\* match / len(weather_days), kept as the exact fraction num/den.
AgreeRatioMutant(qs, day_city) ==
    LET weather_days == {o \in qs : o.weather_day # None}
        match == Cardinality({o \in weather_days : o.weather_day[1] = day_city})
    IN IF weather_days = {} THEN None
       ELSE Some([num |-> match, den |-> Cardinality(qs)])

AgreeRatio(qs, day_city) ==
    LET weather_days == {o \in qs : o.weather_day # None}
        match == Cardinality({o \in weather_days : o.weather_day[1] = day_city})
    IN IF weather_days = {} THEN None
       ELSE Some([num |-> match, den |-> Cardinality(weather_days)])

\* mean(vals), kept as the exact fraction sum/n.
MeanOf(qs, f) ==
    LET vals == {o \in qs : o[f] # None}
    IN IF vals = {} THEN None
       ELSE Some([sum |-> SumOver(vals, f), n |-> Cardinality(vals)])

AnyPositive(qs, f) ==
    LET vals == {o \in qs : o[f] # None}
    IN IF vals = {} THEN None ELSE Some(\E o \in vals : o[f][1] > 0)

CityDefaults(qs) ==
    [weather_day_city |-> Some(DayCity(qs)),
     freeze_day_city |-> FreezeCity(qs),
     t_max_avg |-> MeanOf(qs, "t_max_c"),
     t_min_avg |-> MeanOf(qs, "t_min_c"),
     precip_any |-> AnyPositive(qs, "total_precip_mm"),
     snow_any |-> AnyPositive(qs, "total_snow_cm"),
     agreement_ratio |-> AgreeRatio(qs, DayCity(qs))]

UpsertCityMutant(cw, d, defaults) ==
    cw \cup {[id |-> MaxId(cw) + 1, date |-> d] @@ defaults}

\* CityDailyWeather.objects.update_or_create(date=d, defaults=defaults)
UpsertCity(cw, d, defaults) ==
    LET hit == {r \in cw : r.date = d}
    IN IF hit = {}
       THEN cw \cup {[id |-> MaxId(cw) + 1, date |-> d] @@ defaults}
       ELSE (cw \ hit) \cup {[id |-> r.id, date |-> d] @@ defaults : r \in hit}

\* The loop of Command.handle over the distinct observation dates (taken in
\* ascending order; the order only decides the surrogate ids of new rows).
RECURSIVE BuildCityRows(_, _, _)
BuildCityRows(cw, obs, dates) ==
    IF dates = {} THEN cw
    ELSE LET d == CHOOSE x \in dates : \A y \in dates : x <= y
         IN BuildCityRows(UpsertCity(cw, d, CityDefaults({o \in obs : o.date = d})),
                          obs, dates \ {d})

BuildCityWeatherResult(cw, obs) == BuildCityRows(cw, obs, {o.date : o \in obs})

\* ------------------------------------------------------------------------
\* load_collisions.py
\* ------------------------------------------------------------------------
\* Calendar of 2024 for the first quarter: day number -> month, weekday.
MonthOf(d) == IF d <= 31 THEN 1 ELSE IF d <= 60 THEN 2 ELSE 3

WeekdayOf(d) == (d - 1) % 7

\* A START_DT / MODIFIED_DT cell: k = "primary" for text in the format
\* %Y/%m/%d %I:%M:%S %p, "fallback" for %Y-%m-%d %H:%M:%S, "empty", or "bad"
\* for any other text; d and h are the local day and hour it denotes.
parse_dt_local(s) ==
    IF s.k = "empty" THEN None
    ELSE IF s.k = "primary" THEN Some([d |-> s.d, h |-> s.h])
    ELSE IF s.k = "fallback" THEN Some([d |-> s.d, h |-> s.h])
    ELSE None

\* q.strip().upper() for the quadrant texts of the model.
StripUpper(q) ==
    CASE q = "ne" -> "NE"
      [] q = " nw " -> "NW"
      [] q = "sw" -> "SW"
      [] q = "se" -> "SE"
      [] OTHER -> q

norm_quadrant(q) ==
    IF q = "" THEN Quadrant.UNKNOWN
    ELSE LET q2 == StripUpper(q)
         IN IF q2 \in {Quadrant.NW, Quadrant.NE, Quadrant.SW, Quadrant.SE}
            THEN q2 ELSE Quadrant.UNKNOWN

in_bounds(lon, lat) ==
    (-114500000 <= lon /\ lon <= -113600000) /\ (50500000 <= lat /\ lat <= 51300000)

\* round(x, 4) of a coordinate in micro-degrees.
Round4(x) == ((x + 50) \div 100) * 100

IntersectionKey(lat, lon) == <<Round4(lat), Round4(lon)>>

\* Values of the haversine formula (R = 6371 km) for the coordinates of the
\* model, keyed by <<lon1, lat1, lon2, lat2>> in micro-degrees, in
\* micro-kilometres.
HaversineTable ==
    (<<-114060000, 51045000, -114060000, 51045000>> :> 0)
    @@ (<<-114060000, 51045000, -114055175, 51048016>> :> 475648)
    @@ (<<-114060000, 51045000, -114053000, 51049500>> :> 699880)
    @@ (<<-114060000, 51045000, -114060000, 51134880>> :> 9994200)
    @@ (<<-114060000, 51045000, -114346000, 51045000>> :> 19994060)
    @@ (<<-114060000, 51045000, -114010000, 51120000>> :> 9041446)
    @@ (<<-114060000, 51045000, -114020000, 51130000>> :> 9855836)
    @@ (<<-114060000, 51045000, -114070000, 51050000>> :> 893189)
    @@ (<<-114055175, 51048016, -114060000, 51045000>> :> 475648)
    @@ (<<-114055175, 51048016, -114055175, 51048016>> :> 0)
    @@ (<<-114055175, 51048016, -114053000, 51049500>> :> 224378)
    @@ (<<-114055175, 51048016, -114060000, 51134880>> :> 9664712)
    @@ (<<-114055175, 51048016, -114346000, 51045000>> :> 20333475)
    @@ (<<-114055175, 51048016, -114010000, 51120000>> :> 8603792)
    @@ (<<-114055175, 51048016, -114020000, 51130000>> :> 9441434)
    @@ (<<-114055175, 51048016, -114070000, 51050000>> :> 1059538)
    @@ (<<-114053000, 51049500, -114060000, 51045000>> :> 699880)
    @@ (<<-114053000, 51049500, -114055175, 51048016>> :> 224378)
    @@ (<<-114053000, 51049500, -114053000, 51049500>> :> 0)
    @@ (<<-114053000, 51049500, -114060000, 51134880>> :> 9506401)
    @@ (<<-114053000, 51049500, -114346000, 51045000>> :> 20488540)
    @@ (<<-114053000, 51049500, -114010000, 51120000>> :> 8394930)
    @@ (<<-114053000, 51049500, -114020000, 51130000>> :> 9243151)
    @@ (<<-114053000, 51049500, -114070000, 51050000>> :> 1189637)
    @@ (<<-114060000, 51134880, -114060000, 51045000>> :> 9994200)
    @@ (<<-114060000, 51134880, -114055175, 51048016>> :> 9664712)
    @@ (<<-114060000, 51134880, -114053000, 51049500>> :> 9506401)
    @@ (<<-114060000, 51134880, -114060000, 51134880>> :> 0)
    @@ (<<-114060000, 51134880, -114346000, 51045000>> :> 22335408)
    @@ (<<-114060000, 51134880, -114010000, 51120000>> :> 3861664)
    @@ (<<-114060000, 51134880, -114020000, 51130000>> :> 2843351)
    @@ (<<-114060000, 51134880, -114070000, 51050000>> :> 9464028)
    @@ (<<-114346000, 51045000, -114060000, 51045000>> :> 19994060)
    @@ (<<-114346000, 51045000, -114055175, 51048016>> :> 20333475)
    @@ (<<-114346000, 51045000, -114053000, 51049500>> :> 20488540)
    @@ (<<-114346000, 51045000, -114060000, 51134880>> :> 22335408)
    @@ (<<-114346000, 51045000, -114346000, 51045000>> :> 0)
    @@ (<<-114346000, 51045000, -114010000, 51120000>> :> 24908093)
    @@ (<<-114346000, 51045000, -114020000, 51130000>> :> 24653240)
    @@ (<<-114346000, 51045000, -114070000, 51050000>> :> 19301935)
    @@ (<<-114010000, 51120000, -114060000, 51045000>> :> 9041446)
    @@ (<<-114010000, 51120000, -114055175, 51048016>> :> 8603792)
    @@ (<<-114010000, 51120000, -114053000, 51049500>> :> 8394930)
    @@ (<<-114010000, 51120000, -114060000, 51134880>> :> 3861664)
    @@ (<<-114010000, 51120000, -114346000, 51045000>> :> 24908093)
    @@ (<<-114010000, 51120000, -114010000, 51120000>> :> 0)
    @@ (<<-114010000, 51120000, -114020000, 51130000>> :> 1312812)
    @@ (<<-114010000, 51120000, -114070000, 51050000>> :> 8840196)
    @@ (<<-114020000, 51130000, -114060000, 51045000>> :> 9855836)
    @@ (<<-114020000, 51130000, -114055175, 51048016>> :> 9441434)
    @@ (<<-114020000, 51130000, -114053000, 51049500>> :> 9243151)
    @@ (<<-114020000, 51130000, -114060000, 51134880>> :> 2843351)
    @@ (<<-114020000, 51130000, -114346000, 51045000>> :> 24653240)
    @@ (<<-114020000, 51130000, -114010000, 51120000>> :> 1312812)
    @@ (<<-114020000, 51130000, -114020000, 51130000>> :> 0)
    @@ (<<-114020000, 51130000, -114070000, 51050000>> :> 9556471)
    @@ (<<-114070000, 51050000, -114060000, 51045000>> :> 893189)
    @@ (<<-114070000, 51050000, -114055175, 51048016>> :> 1059538)
    @@ (<<-114070000, 51050000, -114053000, 51049500>> :> 1189637)
    @@ (<<-114070000, 51050000, -114060000, 51134880>> :> 9464028)
    @@ (<<-114070000, 51050000, -114346000, 51045000>> :> 19301935)
    @@ (<<-114070000, 51050000, -114010000, 51120000>> :> 8840196)
    @@ (<<-114070000, 51050000, -114020000, 51130000>> :> 9556471)
    @@ (<<-114070000, 51050000, -114070000, 51050000>> :> 0)

haversine_km(lon1, lat1, lon2, lat2) == HaversineTable[<<lon1, lat1, lon2, lat2>>]

\* The scan of nearest_station_id over the stations in id order: a later
\* station replaces the best one only when strictly nearer.
RECURSIVE NearestScan(_, _, _, _, _)
NearestScan(sts, lon, lat, best, best_d) ==
    IF sts = {} THEN best
    ELSE LET st == CHOOSE x \in sts : \A y \in sts : x.id <= y.id
             d == haversine_km(lon, lat, st.longitude, st.latitude)
         IN IF best_d = None \/ d < best_d[1]
            THEN NearestScan(sts \ {st}, lon, lat, Some(st.id), Some(d))
            ELSE NearestScan(sts \ {st}, lon, lat, best, best_d)

nearest_station_idMutant(sts, lon, lat) ==
    IF sts = {} THEN None
    ELSE Some((CHOOSE x \in sts : \A y \in sts : x.id <= y.id).id)

nearest_station_id(sts, lon, lat) ==
    IF sts = {} THEN None ELSE NearestScan(sts, lon, lat, None, None)

\* Collision.objects.update_or_create(collision_id=coll_id, defaults=defaults)
UpsertCollisionMutant(co, coll_id, defaults) ==
    co \cup {[id |-> MaxId(co) + 1, collision_id |-> coll_id] @@ defaults}

UpsertCollision(co, coll_id, defaults) ==
    LET hit == {c \in co : c.collision_id = coll_id}
    IN IF hit = {}
       THEN co \cup {[id |-> MaxId(co) + 1, collision_id |-> coll_id] @@ defaults}
       ELSE (co \ hit) \cup {[id |-> c.id, collision_id |-> coll_id] @@ defaults : c \in hit}

SkipMutant(acc, reason) ==
    [acc EXCEPT !.skipped = @ + 1, !.skip_reasons["exception"] = @ + 1]

Skip(acc, reason) ==
    [acc EXCEPT !.skipped = @ + 1, !.skip_reasons[reason] = @ + 1]

\* One iteration of the row loop of Command.handle.  acc = [co, created,
\* updated, skipped, skip_reasons]; sts is the WeatherStation table.  A
\* coordinate cell is "empty", "nan", "num" or "junk" (float() raises); the
\* Count cell is "empty", "num" (integer text) or "junk" (int() raises).
\* A negative count violates the PositiveIntegerField check on save, which
\* raises inside the row's try block.
CollisionRowStep(acc, sts, row) ==
    IF row.id = "" THEN Skip(acc, "no_id")
    ELSE IF row.lon.k = "junk" \/ row.lat.k = "junk" THEN Skip(acc, "exception")
    ELSE IF row.lon.k # "num" \/ row.lat.k # "num" THEN Skip(acc, "invalid_coords")
    ELSE
      LET lon == row.lon.v
          lat == row.lat.v
          occ == parse_dt_local(row.start)
      IN IF ~in_bounds(lon, lat) THEN Skip(acc, "out_of_bounds")
         ELSE IF occ = None THEN Skip(acc, "bad_start_dt")
         ELSE
           LET count_val == IF row.count.k = "num" THEN row.count.v ELSE 1
               defaults == [occurred_at |-> occ[1],
                            modified_at |-> parse_dt_local(row.modified),
                            date |-> occ[1].d,
                            hour |-> occ[1].h,
                            weekday |-> WeekdayOf(occ[1].d),
                            month |-> MonthOf(occ[1].d),
                            quadrant |-> norm_quadrant(row.quadrant),
                            longitude |-> lon,
                            latitude |-> lat,
                            count |-> count_val,
                            location_text |-> row.info,
                            intersection_key |-> IntersectionKey(lat, lon),
                            nearest_station |-> nearest_station_id(sts, lon, lat)]
               was_created == ~\E c \in acc.co : c.collision_id = row.id
           IN IF count_val < 0 THEN Skip(acc, "exception")
              ELSE [acc EXCEPT !.co = UpsertCollision(acc.co, row.id, defaults),
                               !.created = IF was_created THEN @ + 1 ELSE @,
                               !.updated = IF was_created THEN @ ELSE @ + 1]

RECURSIVE LoadCollisionRows(_, _, _)
LoadCollisionRows(acc, sts, rows) ==
    IF rows = <<>> THEN acc
    ELSE LoadCollisionRows(CollisionRowStep(acc, sts, Head(rows)), sts, Tail(rows))

LoadCollisionFilesMutant(acc, sts, files) ==
    IF files = <<>> THEN acc ELSE LoadCollisionRows(acc, sts, Head(files))

RECURSIVE LoadCollisionFiles(_, _, _)
LoadCollisionFiles(acc, sts, files) ==
    IF files = <<>> THEN acc
    ELSE LoadCollisionFiles(LoadCollisionRows(acc, sts, Head(files)), sts, Tail(files))

NoSkips == [no_id |-> 0, invalid_coords |-> 0, out_of_bounds |-> 0, bad_start_dt |-> 0, exception |-> 0]

\* Command.handle of load_collisions on the collision table co.
LoadCollisionsResultMutant(co, sts, files) ==
    LET r == LoadCollisionFiles([co |-> co, created |-> 0, updated |-> 0, skipped |-> 0,
                                 skip_reasons |-> NoSkips], sts, files)
    IN IF r.skip_reasons.exception > 0 THEN [r EXCEPT !.co = co] ELSE r

LoadCollisionsResult(co, sts, files) ==
    LoadCollisionFiles([co |-> co, created |-> 0, updated |-> 0, skipped |-> 0,
                        skip_reasons |-> NoSkips], sts, files)

\* ------------------------------------------------------------------------
\* Input files of the ingestion runs
\* ------------------------------------------------------------------------
Iso(d) == [k |-> "iso", d |-> d]

BadDate == [k |-> "bad", d |-> 0]

WRow(cid, name, lon, lat, date, t_max, t_min, precip, snow, gust) ==
    [climate_id |-> cid, name |-> name, lon |-> lon, lat |-> lat, date |-> date,
     t_max |-> t_max, t_min |-> t_min, precip |-> precip, snow |-> snow, gust |-> gust]

\* Station-day rows: a snowy freezing day, a row without coordinates (trace
\* precipitation, missing minimum) and a wet day at a second station.
WeatherRowSet ==
    { WRow("A", "Airport", Num(-114010000), Num(51120000), Iso(10),
           Num(10), Num(-50), Num(0), Num(20), Num(250)),
      WRow("A", "Airport", Cell("empty"), Cell("empty"), Iso(11),
           Num(40), Cell("M"), Cell("T"), Num(0), Cell("empty")),
      WRow("B", "University", Num(-114070000), Num(51050000), Iso(10),
           Num(40), Num(20), Num(12), Num(0), Num(657)) }

Dt(k, d, h) == [k |-> k, d |-> d, h |-> h]

CRow(id, lon, lat, start, modified, count, quadrant, info) ==
    [id |-> id, lon |-> lon, lat |-> lat, start |-> start, modified |-> modified,
     count |-> count, quadrant |-> quadrant, info |-> info]

\* Incident rows: two good rows and a later version of the first incident
\* at another place.
CollisionRowSet ==
    { CRow("C1", Num(-114055175), Num(51048016), Dt("primary", 10, 8), Dt("primary", 10, 9),
           Cell("empty"), "ne", "Loc A"),
      CRow("C2", Num(-114053000), Num(51049500), Dt("fallback", 11, 17), Dt("bad", 0, 0),
           Num(2), "XX", "Loc B"),
      CRow("C1", Num(-114060000), Num(51134880), Dt("primary", 11, 16), Dt("empty", 0, 0),
           Cell("junk"), " nw ", "Loc A") }

\* The file lists of a run: one file of at most MaxRows rows, or two files
\* of one row each.
FileLists(rowSet) ==
    {<<f>> : f \in SeqsUpTo(rowSet, MaxRows)} \cup {<<f, g>> : f, g \in [1..1 -> rowSet]}

WeatherInputs == FileLists(WeatherRowSet)

CollisionInputs == FileLists(CollisionRowSet)

\* ------------------------------------------------------------------------
\* Ingestion: the three management commands, each one transaction
\* ------------------------------------------------------------------------
NoRun == [cmd |-> "none", created |-> 0, updated |-> 0, skipped |-> 0, skip_reasons |-> NoSkips]

NoResponse == [view |-> "none"]

\* The page cache of the views: no page stored.
NoCache == {}

Init ==
    /\ stations = {}
    /\ observations = {}
    /\ city = {}
    /\ collisions = {}
    /\ lastRun = NoRun
    /\ response = NoResponse
    /\ cache = NoCache

LoadWeatherResult(st, ob, files) == LoadWeatherFiles([st |-> st, ob |-> ob], files)

LoadWeather ==
    \E files \in WeatherInputs :
        LET db == LoadWeatherResult(stations, observations, files)
        IN /\ stations' = db.st
           /\ observations' = db.ob
           /\ lastRun' = [NoRun EXCEPT !.cmd = "load_weather"]
           /\ UNCHANGED <<city, collisions, response, cache>>

LoadCollisions ==
    \E files \in CollisionInputs :
        LET r == LoadCollisionsResult(collisions, stations, files)
        IN /\ collisions' = r.co
           /\ lastRun' = [cmd |-> "load_collisions", created |-> r.created, updated |-> r.updated,
                          skipped |-> r.skipped, skip_reasons |-> r.skip_reasons]
           /\ UNCHANGED <<stations, observations, city, response, cache>>

BuildCityWeather ==
    /\ city' = BuildCityWeatherResult(city, observations)
    /\ lastRun' = [NoRun EXCEPT !.cmd = "build_city_weather"]
    /\ UNCHANGED <<stations, observations, collisions, response, cache>>

Next == LoadWeather \/ LoadCollisions \/ BuildCityWeather

Spec == Init /\ [][Next]_vars

\* ------------------------------------------------------------------------
\* Aggregation over arbitrary station readings of one day
\* ------------------------------------------------------------------------
AggStationIds == <<"A", "B", "C", "D">>

AggDate == 10

\* The readings of one station: minimum temperature, precipitation, snow;
\* or no usable row at all.
AggReadings ==
    [t_min : {Cell("M"), Num(-50), Num(20)},
     precip : {Cell("M"), Cell("T"), Num(1), Num(2), Num(12)},
     snow : {Cell("empty"), Num(0), Num(20)},
     present : {TRUE}]
    \cup {[t_min |-> Cell("M"), precip |-> Cell("M"), snow |-> Cell("M"), present |-> FALSE]}

AggRow(i, r) ==
    WRow(IF r.present THEN AggStationIds[i] ELSE "", "Station", Num(-114010000), Num(51120000),
         Iso(AggDate), Num(10), r.t_min, r.precip, r.snow, Cell("empty"))

InitAgg ==
    \E f \in [1..NumAggStations -> AggReadings] :
        LET db == LoadWeatherResult({}, {}, << [i \in 1..NumAggStations |-> AggRow(i, f[i])] >>)
        IN /\ stations = db.st
           /\ observations = db.ob
           /\ city = {}
           /\ collisions = {}
           /\ lastRun = [NoRun EXCEPT !.cmd = "load_weather"]
           /\ response = NoResponse
           /\ cache = NoCache

NextAgg == BuildCityWeather

SpecAgg == InitAgg /\ [][NextAgg]_vars

\* ------------------------------------------------------------------------
\* api/filters.py and the request helpers of api/views.py
\* ------------------------------------------------------------------------
\* A request is the record of its query parameters.  A date parameter is a
\* token [k, d]: "absent"; "empty" (from=); "iso" for YYYY-MM-DD text;
\* "loose" for text that int() accepts part by part but strptime does not
\* (+2024-01-10); "us" for MM/DD/YYYY; "bad" for any other text
\* (2024/01/10).  A numeric parameter is a Cell or Num token, a text
\* parameter a Txt token.
NoDate == [k |-> "absent", d |-> 0]

EmptyDate == [k |-> "empty", d |-> 0]

Loose(d) == [k |-> "loose", d |-> d]

Us(d) == [k |-> "us", d |-> d]

NoText == [k |-> "absent", v |-> ""]

Txt(s) == [k |-> "text", v |-> s]

NoParams ==
    [from |-> NoDate, to |-> NoDate, from_date |-> NoDate, to_date |-> NoDate,
     quadrant |-> NoText, weather_day_city |-> NoText, freeze_day_city |-> NoText,
     heavy_rain |-> NoText, heavy_snow |-> NoText, gust_min |-> Cell("absent"),
     station |-> NoText, commute |-> NoText,
     lat |-> Cell("absent"), lon |-> Cell("absent"),
     radius_km |-> Cell("absent"), limit |-> Cell("absent")]

\* str.strip() and str.lower() for the parameter texts of the model.
Strip(s) ==
    CASE s = " TRUE " -> "TRUE"
      [] s = " Snowy" -> "Snowy"
      [] s = " A " -> "A"
      [] s = " " -> ""
      [] OTHER -> s

Lower(s) ==
    CASE s = "Yes" -> "yes"
      [] s = "TRUE" -> "true"
      [] s = "No" -> "no"
      [] s = "DRY" -> "dry"
      [] s = "Wet" -> "wet"
      [] s = "Snowy" -> "snowy"
      [] s = "AM" -> "am"
      [] OTHER -> s

StripLower(s) == Lower(Strip(s))

_str_to_boolMutant(val) ==
    IF val.k = "absent" THEN None
    ELSE LET s == StripLower(val.v)
         IN IF s \in {"1", "true", "t", "yes", "y"} THEN Some(TRUE) ELSE Some(FALSE)

_str_to_bool(val) ==
    IF val.k = "absent" THEN None
    ELSE LET s == StripLower(val.v)
         IN IF s \in {"1", "true", "t", "yes", "y"} THEN Some(TRUE)
            ELSE IF s \in {"0", "false", "f", "no", "n"} THEN Some(FALSE)
            ELSE None

\* The form fields behind the declared filters.  clean() gives [ok, value]:
\* not ok when the text is rejected, value None for absent or empty text.
DateFieldClean(s) ==
    IF s.k \in {"absent", "empty"} THEN [ok |-> TRUE, value |-> None]
    ELSE IF s.k \in {"iso", "us"} THEN [ok |-> TRUE, value |-> Some(s.d)]
    ELSE [ok |-> FALSE, value |-> None]

DecimalFieldClean(s) ==
    IF s.k \in {"absent", "empty"} THEN [ok |-> TRUE, value |-> None]
    ELSE IF s.k = "num" THEN [ok |-> TRUE, value |-> Some(s.v)]
    ELSE [ok |-> FALSE, value |-> None]

\* forms.CharField strips the text; empty text is no value.
CharFieldClean(s) ==
    IF s.k = "absent" \/ Strip(s.v) = "" THEN None ELSE Some(Strip(s.v))

filter_from(qs, value) == {c \in qs : c.date >= value}

filter_to(qs, value) == {c \in qs : c.date <= value}

filter_quadrant(qs, value) == {c \in qs : c.quadrant = value}

CityDates(f, v) == {r.date : r \in {x \in city : x[f] = Some(v)}}

filter_weather_day_cityMutant(qs, value) ==
    LET s == Strip(value)
        code == IF s = "dry" THEN Some(WeatherDay.DRY)
                ELSE IF s = "wet" THEN Some(WeatherDay.WET)
                ELSE IF s = "snowy" THEN Some(WeatherDay.SNOWY)
                ELSE None
    IN IF code = None THEN qs
       ELSE {c \in qs : c.date \in CityDates("weather_day_city", code[1])}

filter_weather_day_city(qs, value) ==
    LET s == StripLower(value)
        code == IF s = "dry" THEN Some(WeatherDay.DRY)
                ELSE IF s = "wet" THEN Some(WeatherDay.WET)
                ELSE IF s = "snowy" THEN Some(WeatherDay.SNOWY)
                ELSE None
    IN IF code = None THEN qs
       ELSE {c \in qs : c.date \in CityDates("weather_day_city", code[1])}

filter_freeze_day_city(qs, value) ==
    LET v == _str_to_bool(Txt(value))
    IN IF v = None THEN qs ELSE {c \in qs : c.date \in CityDates("freeze_day_city", v[1])}

filter_heavy_rain(qs, value) ==
    LET v == _str_to_bool(Txt(value))
    IN IF v = None THEN qs ELSE {c \in qs : c.date \in CityDates("precip_any", v[1])}

filter_heavy_snow(qs, value) ==
    LET v == _str_to_bool(Txt(value))
    IN IF v = None THEN qs ELSE {c \in qs : c.date \in CityDates("snow_any", v[1])}

\* threshold in tenths of km/h; gust_kmh is stored in whole km/h.
filter_gust_minMutant(qs, threshold) ==
    {c \in qs : \E o \in observations :
        /\ o.date = c.date
        /\ o.gust_kmh # None
        /\ o.gust_kmh[1] * 10 >= threshold}

filter_gust_min(qs, threshold) ==
    {c \in qs : \E o \in observations :
        /\ Some(o.station) = c.nearest_station
        /\ o.date = c.date
        /\ o.gust_kmh # None
        /\ o.gust_kmh[1] * 10 >= threshold}

\* A station text is all digits exactly when it is one of StationDigits.
StationDigits == [t \in {"1", "2"} |-> IF t = "1" THEN 1 ELSE 2]

filter_station(qs, value) ==
    LET s == Strip(value)
    IN IF s = "" THEN qs
       ELSE IF s \in DOMAIN StationDigits
       THEN {c \in qs : c.nearest_station = Some(StationDigits[s])}
       ELSE {c \in qs : \E st \in stations :
                Some(st.id) = c.nearest_station /\ st.climate_id = s}

\* The names of the declared filters whose form field rejects its text.
FilterErrorsMutant(data) ==
    {n \in {"from_date", "to_date"} : ~DateFieldClean(data[n]).ok}

FilterErrors(data) ==
    {n \in {"from_date", "to_date"} : ~DateFieldClean(data[n]).ok}
      \cup {n \in {"gust_min"} : ~DecimalFieldClean(data[n]).ok}

ApplyDate(qs, s, lower) ==
    LET c == DateFieldClean(s)
    IN IF c.value = None THEN qs
       ELSE IF lower THEN filter_from(qs, c.value[1]) ELSE filter_to(qs, c.value[1])

ApplyText(qs, s, name) ==
    LET c == CharFieldClean(s)
    IN IF c = None THEN qs
       ELSE CASE name = "quadrant" -> filter_quadrant(qs, c[1])
              [] name = "weather_day_city" -> filter_weather_day_city(qs, c[1])
              [] name = "freeze_day_city" -> filter_freeze_day_city(qs, c[1])
              [] name = "heavy_rain" -> filter_heavy_rain(qs, c[1])
              [] name = "heavy_snow" -> filter_heavy_snow(qs, c[1])
              [] name = "station" -> filter_station(qs, c[1])

ApplyGustMutant(qs, s) ==
    LET c == DecimalFieldClean(s)
    IN IF c.value = None THEN (IF c.ok THEN qs ELSE filter_gust_min(qs, 0))
       ELSE filter_gust_min(qs, c.value[1])

ApplyGust(qs, s) ==
    LET c == DecimalFieldClean(s)
    IN IF c.value = None THEN qs ELSE filter_gust_min(qs, c.value[1])

\* CollisionFilter(data, queryset=qs).qs: every declared filter whose field
\* is valid and non-empty is applied; a rejected field is left out.
CollisionFilterQs(data, qs) ==
    LET q1 == ApplyDate(qs, data.from_date, TRUE)
        q2 == ApplyDate(q1, data.to_date, FALSE)
        q3 == ApplyText(q2, data.quadrant, "quadrant")
        q4 == ApplyText(q3, data.weather_day_city, "weather_day_city")
        q5 == ApplyText(q4, data.freeze_day_city, "freeze_day_city")
        q6 == ApplyText(q5, data.heavy_rain, "heavy_rain")
        q7 == ApplyText(q6, data.heavy_snow, "heavy_snow")
        q8 == ApplyGust(q7, data.gust_min)
    IN ApplyText(q8, data.station, "station")

_normalized_params(request) ==
    LET q1 == IF request.from.k # "absent" /\ request.from_date.k = "absent"
              THEN [request EXCEPT !.from_date = request.from] ELSE request
    IN IF q1.to.k # "absent" /\ q1.to_date.k = "absent"
       THEN [q1 EXCEPT !.to_date = q1.to] ELSE q1

_filtered_collisions(request) == CollisionFilterQs(_normalized_params(request), collisions)

\* date(y, m, d) of the three integers of s.split('-'); None when it raises.
_parse_date(s) == IF s.k \in {"iso", "loose"} THEN Some(s.d) ELSE None

\* TRUE when the validation returns, FALSE when it raises ValidationError.
_validate_date_range_or_400(request) ==
    LET q == _normalized_params(request)
        fs == q.from_date
        ts == q.to_date
        given(s) == s.k \notin {"absent", "empty"}
    IN /\ given(fs) => _parse_date(fs) # None
       /\ given(ts) => _parse_date(ts) # None
       /\ (given(fs) /\ given(ts) /\ _parse_date(fs) # None /\ _parse_date(ts) # None)
             => ~(_parse_date(fs)[1] > _parse_date(ts)[1])

\* ------------------------------------------------------------------------
\* api/views.py: the query views
\* ------------------------------------------------------------------------
\* A response is [view, status, q, qs, results, params]: q is the request,
\* qs the collisions the view returned or aggregated.
Rejected(view, q) ==
    [view |-> view, status |-> 400, q |-> q, qs |-> {}, results |-> <<>>, params |-> <<>>]

Answer(view, q, qs, results, params) ==
    [view |-> view, status |-> 200, q |-> q, qs |-> qs, results |-> results, params |-> params]

\* Sum("count") over a set of collisions.
RECURSIVE SumCountMutant(_)
SumCountMutant(S) ==
    IF S = {} THEN 0
    ELSE LET x == CHOOSE y \in S : TRUE
         IN 1 + SumCountMutant(S \ {x})

RECURSIVE SumCount(_)
SumCount(S) ==
    IF S = {} THEN 0
    ELSE LET x == CHOOSE y \in S : TRUE
         IN x.count + SumCount(S \ {x})

\* The orders in which the rows of S can come out of a query sorted by the
\* relation leq: the database is free in the order of rows that tie.
SortedSeqs(S, leq(_, _)) ==
    {f \in [1..Cardinality(S) -> S] :
        /\ \A i, j \in 1..Cardinality(S) : i # j => f[i] # f[j]
        /\ \A i \in 1..(Cardinality(S) - 1) : leq(f[i], f[i + 1])}

FirstN(s, n) == IF Len(s) <= n THEN s ELSE SubSeq(s, 1, n)

\* CollisionViewSet.list: the date validation on the normalised parameters,
\* then the filter backend on the raw query parameters, which rejects the
\* request when a form field is invalid.
ListResponse(q) ==
    IF ~_validate_date_range_or_400(q) THEN Rejected("list", q)
    ELSE IF FilterErrors(q) # {} THEN Rejected("list", q)
    ELSE LET qs == CollisionFilterQs(q, collisions)
         IN Answer("list", q, qs, qs, <<>>)

MonthlyTrendResponse(q) ==
    IF ~_validate_date_range_or_400(q) THEN Rejected("monthly-trend", q)
    ELSE LET qs == _filtered_collisions(q)
             out == [m \in 1..12 |-> SumCount({c \in qs : c.month = m})]
         IN Answer("monthly-trend", q, qs, out, <<>>)

ByHourResponse(q) ==
    IF ~_validate_date_range_or_400(q) THEN Rejected("by-hour", q)
    ELSE LET commute == IF q.commute.k = "absent" THEN "" ELSE StripLower(q.commute.v)
             base == _filtered_collisions(q)
             qs == IF commute = "am" THEN {c \in base : c.hour \in {7, 8, 9}}
                   ELSE IF commute = "pm" THEN {c \in base : c.hour \in {16, 17, 18}}
                   ELSE base
             out == [h \in 0..23 |-> SumCount({c \in qs : c.hour = h})]
         IN Answer("by-hour", q, qs, out,
                   [commute |-> IF commute = "" THEN None ELSE Some(commute)])

WeekdayResponse(q) ==
    IF ~_validate_date_range_or_400(q) THEN Rejected("weekday", q)
    ELSE LET qs == _filtered_collisions(q)
             out == [d \in 0..6 |-> SumCount({c \in qs : c.weekday = d})]
         IN Answer("weekday", q, qs, out, <<>>)

QuadrantShareResponse(q) ==
    IF ~_validate_date_range_or_400(q) THEN Rejected("quadrant-share", q)
    ELSE LET qs == _filtered_collisions(q)
             keys == {Quadrant.NE, Quadrant.NW, Quadrant.SE, Quadrant.SW, Quadrant.UNKNOWN}
             out == [k \in keys |-> SumCount({c \in qs : c.quadrant = k})]
         IN Answer("quadrant-share", q, qs, out, <<>>)

\* per_date: Sum("count") for each date of the filtered collisions.
PerDateTotals(qs) == [d \in {c.date : c \in qs} |-> SumCount({c \in qs : c.date = d})]

\* weather_by_date: the classification of each of those dates that has a
\* city row.
WeatherByDate(dates) ==
    [d \in {r.date : r \in {x \in city : x.date \in dates}} |->
       (CHOOSE r \in city : r.date = d).weather_day_city]

\* The loop over per_date: the totals of the dates in D added up.
RECURSIVE AddTotals(_, _)
AddTotals(per_date, D) ==
    IF D = {} THEN 0
    ELSE LET d == CHOOSE y \in D : TRUE
         IN per_date[d] + AddTotals(per_date, D \ {d})

ByWeatherResponseMutant(q) ==
    IF ~_validate_date_range_or_400(q) THEN Rejected("by-weather", q)
    ELSE LET qs == _filtered_collisions(q)
             per_date == PerDateTotals(qs)
             weather_by_date == WeatherByDate(DOMAIN per_date)
             keys == {WeatherDay.DRY, WeatherDay.WET, WeatherDay.SNOWY}
             day(d) == IF d \in DOMAIN weather_by_date THEN weather_by_date[d]
                       ELSE Some(WeatherDay.DRY)
             out == [k \in keys |->
                       AddTotals(per_date, {d \in DOMAIN per_date : day(d) = Some(k)})]
         IN Answer("by-weather", q, qs, out, <<>>)

ByWeatherResponse(q) ==
    IF ~_validate_date_range_or_400(q) THEN Rejected("by-weather", q)
    ELSE LET qs == _filtered_collisions(q)
             per_date == PerDateTotals(qs)
             weather_by_date == WeatherByDate(DOMAIN per_date)
             keys == {WeatherDay.DRY, WeatherDay.WET, WeatherDay.SNOWY}
             day(d) == IF d \in DOMAIN weather_by_date THEN weather_by_date[d] ELSE None
             out == [k \in keys |->
                       AddTotals(per_date, {d \in DOMAIN per_date : day(d) = Some(k)})]
         IN Answer("by-weather", q, qs, out, <<>>)

\* int(request.GET.get("limit", dflt)) with the except branch, then the clamp.
EffectiveLimitMutant(tok, dflt, cap) ==
    LET limit == IF tok.k = "num" THEN tok.v ELSE dflt
    IN IF limit > cap THEN cap ELSE limit

EffectiveLimit(tok, dflt, cap) ==
    LET limit == IF tok.k = "num" THEN tok.v ELSE dflt
        low == IF limit < cap THEN limit ELSE cap
    IN IF low > 1 THEN low ELSE 1

\* Collation of the location texts of the model.
TextRank == ("" :> 0) @@ ("Loc A" :> 1) @@ ("Loc B" :> 2) @@ ("Loc C" :> 3)

\* The label subquery: the most frequent location_text of the key, the
\* smallest text among the most frequent.
RepresentativeLabel(qs, key) ==
    LET grp == {c \in qs : c.intersection_key = key}
        texts == {c.location_text : c \in grp}
        freq(t) == Cardinality({c \in grp : c.location_text = t})
    IN CHOOSE t \in texts : \A u \in texts :
          freq(t) > freq(u) \/ (freq(t) = freq(u) /\ TextRank[t] <= TextRank[u])

TopRows(qs) ==
    {[intersection_key |-> k,
      location_text |-> RepresentativeLabel(qs, k),
      total |-> SumCount({c \in qs : c.intersection_key = k}),
      collisions |-> Cardinality({c \in qs : c.intersection_key = k})]
       : k \in {c.intersection_key : c \in qs}}

\* order_by("-total", "location_text")
TopOrder(a, b) ==
    a.total > b.total \/ (a.total = b.total /\ TextRank[a.location_text] <= TextRank[b.location_text])

\* The responses StatsTopIntersections.get can give to q.
TopIntersectionsResponses(q) ==
    IF ~_validate_date_range_or_400(q) THEN {Rejected("top-intersections", q)}
    ELSE LET limit == EffectiveLimit(q.limit, 10, 100)
             qs == {c \in _filtered_collisions(q) : c.intersection_key # <<>>}
         IN {Answer("top-intersections", q, qs, FirstN(data, limit), [limit |-> limit])
               : data \in SortedSeqs(TopRows(qs), TopOrder)}

\* |cos(radians(lat))| * 10^4 at the centre latitude of the model, 51.045.
CosE4 == 6287

\* _bbox in micro-degrees for a radius in micro-kilometres.
_bbox(lat, lon, radius_km) ==
    LET lat_delta == (radius_km * 100) \div 11132
        den == (11132 * CosE4) \div 10000
        lon_delta == (radius_km * 100) \div (IF den > 1 THEN den ELSE 1)
    IN [lat_min |-> lat - lat_delta, lat_max |-> lat + lat_delta,
        lon_min |-> lon - lon_delta, lon_max |-> lon + lon_delta]

_haversine_km(lon1, lat1, lon2, lat2) == HaversineTable[<<lon1, lat1, lon2, lat2>>]

\* round(d, 3) of a distance in micro-kilometres.
Round3(d) == ((d + 500) \div 1000) * 1000

\* The radius after float(), the except branch, the non-positive default and
\* min(radius, 10.0).  float() accepts the text nan; NaN <= 0 is false and
\* min(NaN, 10.0) is NaN, so a NaN radius stays NaN.
EffectiveRadius(tok) ==
    LET r0 == IF tok.k \in {"num", "nan"} THEN tok ELSE Num(1000000)
        r1 == IF r0.k = "num" /\ r0.v <= 0 THEN Num(1000000) ELSE r0
    IN IF r1.k = "num" /\ r1.v > 10000000 THEN Num(10000000) ELSE r1

\* float() of lat and lon and the range check: TRUE when both pass.
ValidCenter(q) ==
    /\ q.lat.k = "num" /\ q.lon.k = "num"
    /\ -90000000 <= q.lat.v /\ q.lat.v <= 90000000
    /\ -180000000 <= q.lon.v /\ q.lon.v <= 180000000

\* The rows kept by the bounding box and the radius test, each with its
\* rounded distance.  No comparison with a NaN bound or radius is true.
NearRows(q, radius) ==
    IF radius.k = "nan" THEN {}
    ELSE LET box == _bbox(q.lat.v, q.lon.v, radius.v)
             qs == {c \in _filtered_collisions(q) :
                      /\ c.latitude >= box.lat_min /\ c.latitude <= box.lat_max
                      /\ c.longitude >= box.lon_min /\ c.longitude <= box.lon_max}
         IN {[collision_id |-> c.collision_id,
              distance_km |-> Round3(_haversine_km(q.lon.v, q.lat.v, c.longitude, c.latitude))]
               : c \in {x \in qs :
                          _haversine_km(q.lon.v, q.lat.v, x.longitude, x.latitude) <= radius.v}}

NearOrder(a, b) == a.distance_km <= b.distance_km

\* The responses CollisionsNear.get can give to q.  A NaN radius cannot be
\* written as strict JSON: the renderer either fails (500) or, when set to
\* allow it, echoes NaN.
NearResponses(q) ==
    IF ~ValidCenter(q) THEN {Rejected("near", q)}
    ELSE LET radius == EffectiveRadius(q.radius_km)
             limit == EffectiveLimit(q.limit, 100, 500)
             rows == NearRows(q, radius)
             kept == {c \in collisions : c.collision_id \in {r.collision_id : r \in rows}}
         IN {[view |-> "near", status |-> st, q |-> q,
              qs |-> {c \in kept : c.collision_id \in {out[i].collision_id : i \in DOMAIN out}},
              results |-> out,
              params |-> [lat |-> q.lat.v, lon |-> q.lon.v, radius_km |-> radius,
                          limit |-> limit],
              count |-> Len(out)]
               : out \in {FirstN(s, limit) : s \in SortedSeqs(rows, NearOrder)},
                 st \in IF radius.k = "nan" THEN {200, 500} ELSE {200}}

\* ------------------------------------------------------------------------
\* The seeded database and the requests of the query specifications
\* ------------------------------------------------------------------------
SeedWeatherFile ==
    << WRow("A", "Airport", Num(-114010000), Num(51120000), Iso(10),
            Num(10), Num(-50), Num(0), Num(20), Num(250)),
       WRow("A", "Airport", Cell("empty"), Cell("empty"), Iso(11),
            Num(40), Cell("M"), Cell("T"), Num(0), Cell("empty")),
       WRow("B", "University", Num(-114070000), Num(51050000), Iso(10),
            Num(40), Num(20), Num(12), Num(0), Num(657)) >>

\* Incidents on three days: two at the same intersection, one near it and
\* one ten kilometres north.
SeedCollisionRows ==
    << CRow("C1", Num(-114055175), Num(51048016), Dt("primary", 10, 8), Dt("empty", 0, 0),
            Cell("empty"), "ne", "Loc A"),
       CRow("C2", Num(-114053000), Num(51049500), Dt("fallback", 11, 17), Dt("empty", 0, 0),
            Num(2), "XX", "Loc B"),
       CRow("C3", Num(-114060000), Num(51134880), Dt("primary", 12, 16), Dt("empty", 0, 0),
            Cell("junk"), " nw ", "Loc A"),
       CRow("C4", Num(-114055175), Num(51048016), Dt("primary", 12, 7), Dt("empty", 0, 0),
            Num(3), "se", "Loc C") >>

\* The collision files of a seed: at most MaxSeed of the rows, in order.
SeedFiles ==
    {<<>>} \cup
    {[i \in DOMAIN f |-> SeedCollisionRows[f[i]]] :
        f \in {g \in SeqsUpTo(DOMAIN SeedCollisionRows, MaxSeed) :
                 \A i \in 1..(Len(g) - 1) : g[i] < g[i + 1]}}

\* The database after seed: load_weather, load_collisions, build_city_weather.
Seeded(file) ==
    LET w == LoadWeatherResult({}, {}, <<SeedWeatherFile>>)
    IN [st |-> w.st, ob |-> w.ob,
        cw |-> BuildCityWeatherResult({}, w.ob),
        co |-> LoadCollisionsResult({}, w.st, <<file>>).co]

InitQuery ==
    \E file \in SeedFiles :
      LET db == Seeded(file)
      IN
        /\ stations = db.st
        /\ observations = db.ob
        /\ city = db.cw
        /\ collisions = db.co
        /\ lastRun = [NoRun EXCEPT !.cmd = "build_city_weather"]
        /\ response = NoResponse
        /\ cache = NoCache

\* The ways a request states its lower bound (from, from_date) and its
\* upper bound (to, to_date).
LowerChoices ==
    { <<NoDate, NoDate>>, <<Iso(11), NoDate>>, <<NoDate, Iso(11)>>, <<Iso(12), NoDate>>,
      <<BadDate, NoDate>>, <<Loose(12), NoDate>>, <<Iso(12), EmptyDate>> }

UpperChoices ==
    { <<NoDate, NoDate>>, <<Iso(11), NoDate>>, <<NoDate, Iso(11)>>, <<NoDate, Us(10)>>,
      <<BadDate, NoDate>> }

DateRequests ==
    {[NoParams EXCEPT !.from = lo[1], !.from_date = lo[2], !.to = up[1], !.to_date = up[2]]
       : lo \in LowerChoices, up \in UpperChoices}

\* A near request around the city centre.
AtCentre(q) == [q EXCEPT !.lat = Num(51045000), !.lon = Num(-114060000)]

ListCollisions ==
    \E q \in DateRequests :
        /\ response' = ListResponse(q)
        /\ UNCHANGED <<stations, observations, city, collisions, lastRun, cache>>

StatsMonthlyTrend ==
    \E q \in DateRequests :
        /\ response' = MonthlyTrendResponse(q)
        /\ UNCHANGED <<stations, observations, city, collisions, lastRun, cache>>

StatsByHour ==
    \E q \in DateRequests \cup {[NoParams EXCEPT !.commute = Txt(t)] : t \in {"AM", "pm"}} :
        /\ response' = ByHourResponse(q)
        /\ UNCHANGED <<stations, observations, city, collisions, lastRun, cache>>

StatsWeekday ==
    \E q \in DateRequests :
        /\ response' = WeekdayResponse(q)
        /\ UNCHANGED <<stations, observations, city, collisions, lastRun, cache>>

StatsQuadrantShare ==
    \E q \in DateRequests :
        /\ response' = QuadrantShareResponse(q)
        /\ UNCHANGED <<stations, observations, city, collisions, lastRun, cache>>

StatsTopIntersections ==
    \E q \in DateRequests :
        /\ response' \in TopIntersectionsResponses(q)
        /\ UNCHANGED <<stations, observations, city, collisions, lastRun, cache>>

StatsByWeather ==
    \E q \in DateRequests :
        /\ response' = ByWeatherResponse(q)
        /\ UNCHANGED <<stations, observations, city, collisions, lastRun, cache>>

CollisionsNear ==
    \E q \in DateRequests :
        /\ response' \in NearResponses([AtCentre(q) EXCEPT !.radius_km = Num(10000000)])
        /\ UNCHANGED <<stations, observations, city, collisions, lastRun, cache>>

NextQuery ==
    \/ ListCollisions
    \/ StatsMonthlyTrend
    \/ StatsByHour
    \/ StatsWeekday
    \/ StatsQuadrantShare
    \/ StatsTopIntersections
    \/ StatsByWeather
    \/ CollisionsNear

SpecQuery == InitQuery /\ [][NextQuery]_vars

\* ------------------------------------------------------------------------
\* The near search under its own parameters
\* ------------------------------------------------------------------------
NearCentres ==
    { <<Num(51045000), Num(-114060000)>>, <<Num(51045000), Num(-114346000)>> }

BadCentres ==
    { <<Cell("absent"), Num(-114060000)>>, <<Num(51045000), Cell("junk")>>,
      <<Num(91000000), Num(-114060000)>>, <<Cell("nan"), Num(-114060000)>> }

RadiusTexts ==
    { Cell("absent"), Cell("junk"), Cell("nan"), Num(0), Num(-1000000), Num(475700),
      Num(700000), Num(10000000), Num(25000000) }

NearLimitTexts == { Cell("absent"), Cell("junk"), Num(0), Num(1), Num(2), Num(501) }

NearRequests ==
    {[NoParams EXCEPT !.lat = c[1], !.lon = c[2], !.radius_km = r, !.limit = l]
       : c \in NearCentres, r \in RadiusTexts, l \in NearLimitTexts}
    \cup {[NoParams EXCEPT !.lat = c[1], !.lon = c[2]] : c \in BadCentres}
    \cup {[AtCentre(NoParams) EXCEPT !.from = Iso(11), !.radius_km = Num(700000)]}

NearSearch ==
    \E q \in NearRequests :
        /\ response' \in NearResponses(q)
        /\ UNCHANGED <<stations, observations, city, collisions, lastRun, cache>>

NextNear == NearSearch

SpecNear == InitQuery /\ [][NextNear]_vars

\* ------------------------------------------------------------------------
\* Top intersections under its own parameters
\* ------------------------------------------------------------------------
\* The collision change form of the admin site accepts a blank
\* intersection_key: the rows of ids saved with the field cleared.
AdminBlankKey(co, ids) ==
    {IF c.collision_id \in ids THEN [c EXCEPT !.intersection_key = <<>>] ELSE c : c \in co}

InitTop ==
    \E file \in SeedFiles :
      LET db == Seeded(file)
      IN \E ids \in {{}} \cup {{c.collision_id} : c \in db.co} :
        /\ stations = db.st
        /\ observations = db.ob
        /\ city = db.cw
        /\ collisions = AdminBlankKey(db.co, ids)
        /\ lastRun = [NoRun EXCEPT !.cmd = "build_city_weather"]
        /\ response = NoResponse
        /\ cache = NoCache

TopLimitTexts ==
    { Cell("absent"), Cell("junk"), Cell("empty"), Num(0), Num(-5), Num(1), Num(2),
      Num(100), Num(5000) }

TopRequests ==
    {[NoParams EXCEPT !.limit = l, !.from = lo, !.to = up]
       : l \in TopLimitTexts,
         lo \in {NoDate, Iso(11)},
         up \in {NoDate, Iso(10)}}

TopIntersections ==
    \E q \in TopRequests :
        /\ response' \in TopIntersectionsResponses(q)
        /\ UNCHANGED <<stations, observations, city, collisions, lastRun, cache>>

NextTop == TopIntersections

SpecTop == InitTop /\ [][NextTop]_vars

\* ------------------------------------------------------------------------
\* load_collisions on files with rows of every kind
\* ------------------------------------------------------------------------
\* Rows that fail one or several checks, two rows that raise, and a good row.
LoaderRowSet ==
    { CRow("", Cell("empty"), Num(51048016), Dt("bad", 0, 0), Dt("empty", 0, 0),
           Num(1), "SE", "No Id"),
      CRow("B1", Cell("nan"), Cell("empty"), Dt("bad", 0, 0), Dt("empty", 0, 0),
           Num(1), "NW", "Bad Coords"),
      CRow("B3", Num(-115000000), Num(51048016), Dt("bad", 0, 0), Dt("empty", 0, 0),
           Num(1), "NW", "Far West"),
      CRow("B4", Num(-114053000), Num(51049500), Dt("bad", 0, 0), Dt("primary", 10, 9),
           Num(1), "NE", "Bad Start"),
      CRow("B5", Cell("junk"), Num(51048016), Dt("primary", 10, 8), Dt("empty", 0, 0),
           Num(1), "NE", "Junk Lon"),
      CRow("G1", Num(-114055175), Num(51048016), Dt("primary", 10, 8), Dt("empty", 0, 0),
           Num(-1), "ne", "Loc A"),
      CRow("G1", Num(-114055175), Num(51048016), Dt("primary", 10, 8), Dt("primary", 10, 9),
           Cell("empty"), "ne", "Loc A") }

\* The file lists of a run: one file of at most MaxBatch rows, or two files
\* of one row each.
LoaderInputs ==
    {<<f>> : f \in SeqsUpTo(LoaderRowSet, MaxBatch)}
      \cup {<<f, g>> : f, g \in [1..1 -> LoaderRowSet]}

InitLoad ==
    /\ stations = Seeded(<<>>).st
    /\ observations = Seeded(<<>>).ob
    /\ city = Seeded(<<>>).cw
    /\ collisions = {}
    /\ lastRun = [NoRun EXCEPT !.cmd = "build_city_weather"]
    /\ response = NoResponse
    /\ cache = NoCache

\* One run of load_collisions; lastRun keeps the files next to the report.
LoadCollisionBatch ==
    \E files \in LoaderInputs :
        LET r == LoadCollisionsResult(collisions, stations, files)
        IN /\ collisions' = r.co
           /\ lastRun' = [cmd |-> "load_collisions", created |-> r.created,
                          updated |-> r.updated, skipped |-> r.skipped,
                          skip_reasons |-> r.skip_reasons, files |-> files]
           /\ UNCHANGED <<stations, observations, city, response, cache>>

NextLoad == LoadCollisionBatch

SpecLoad == InitLoad /\ [][NextLoad]_vars

\* ------------------------------------------------------------------------
\* The filter specification: the weather, gust, quadrant and station
\* filters on a database with every kind of day
\* ------------------------------------------------------------------------
\* The seeded weather, and the same with a wet, mild day 12 at the second
\* station whose gust speed is not recorded.
FilterWeatherFiles ==
    { SeedWeatherFile,
      Append(SeedWeatherFile,
             WRow("B", "University", Num(-114070000), Num(51050000), Iso(12),
                  Num(40), Num(20), Num(12), Num(0), Cell("empty"))) }

\* Incidents near each station on the snowy day, one on the dry day and one
\* on day 12.
FilterCollisionRows ==
    << CRow("F1", Num(-114055175), Num(51048016), Dt("primary", 10, 8), Dt("empty", 0, 0),
            Cell("empty"), "ne", "Loc A"),
       CRow("F2", Num(-114060000), Num(51134880), Dt("primary", 10, 17), Dt("empty", 0, 0),
            Num(2), "nw", "Loc B"),
       CRow("F3", Num(-114053000), Num(51049500), Dt("fallback", 11, 7), Dt("empty", 0, 0),
            Num(1), "XX", "Loc C"),
       CRow("F4", Num(-114055175), Num(51048016), Dt("primary", 12, 16), Dt("empty", 0, 0),
            Num(3), "ne", "Loc A") >>

FilterCollisionFiles ==
    {<<>>} \cup
    {[i \in DOMAIN f |-> FilterCollisionRows[f[i]]] :
        f \in {g \in SeqsUpTo(DOMAIN FilterCollisionRows, MaxSeed) :
                 \A i \in 1..(Len(g) - 1) : g[i] < g[i + 1]}}

\* The collisions are loaded after the weather, or before it, when no
\* station exists yet and every nearest station is left empty.
InitFilter ==
    \E wfile \in FilterWeatherFiles, cfile \in FilterCollisionFiles, early \in BOOLEAN :
      LET w == LoadWeatherResult({}, {}, <<wfile>>)
      IN
        /\ stations = w.st
        /\ observations = w.ob
        /\ city = BuildCityWeatherResult({}, w.ob)
        /\ collisions = LoadCollisionsResult({}, IF early THEN {} ELSE w.st, <<cfile>>).co
        /\ lastRun = [NoRun EXCEPT !.cmd = "build_city_weather"]
        /\ response = NoResponse
        /\ cache = NoCache

BoolTexts == {"1", "Yes", " TRUE ", "y", "0", "No", "f", "maybe"}

WeatherTexts == {"dry", "DRY", "Wet", " Snowy", "stormy"}

GustTexts ==
    {Num(200), Num(300), Num(650), Num(657), Cell("junk"), Cell("nan"), Cell("empty")}

QuadrantTexts == {"NE", "UNK", "BAD"}

StationTexts == {"1", "2", "A", "air", "univ", ""}

GustRequests == {[NoParams EXCEPT !.gust_min = t] : t \in GustTexts}

FilterRequests ==
    {NoParams}
      \cup {[NoParams EXCEPT !.freeze_day_city = Txt(t)] : t \in BoolTexts}
      \cup {[NoParams EXCEPT !.heavy_rain = Txt(t)] : t \in BoolTexts}
      \cup {[NoParams EXCEPT !.heavy_snow = Txt(t)] : t \in BoolTexts}
      \cup {[NoParams EXCEPT !.weather_day_city = Txt(t)] : t \in WeatherTexts}
      \cup {[NoParams EXCEPT !.quadrant = Txt(t)] : t \in QuadrantTexts}
      \cup {[NoParams EXCEPT !.station = Txt(t)] : t \in StationTexts}
      \cup GustRequests

\* The responses a view can give to q on the stored data.
ViewResponses(view, q) ==
    CASE view = "list" -> {ListResponse(q)}
      [] view = "monthly-trend" -> {MonthlyTrendResponse(q)}
      [] view = "by-hour" -> {ByHourResponse(q)}
      [] view = "weekday" -> {WeekdayResponse(q)}
      [] view = "quadrant-share" -> {QuadrantShareResponse(q)}
      [] view = "by-weather" -> {ByWeatherResponse(q)}
      [] view = "top-intersections" -> TopIntersectionsResponses(q)
      [] view = "near" -> NearResponses([AtCentre(q) EXCEPT !.radius_km = Num(10000000)])

StatsViews ==
    {"monthly-trend", "by-hour", "weekday", "quadrant-share", "by-weather", "top-intersections"}

FilteredList ==
    \E q \in FilterRequests :
        /\ response' = ListResponse(q)
        /\ UNCHANGED <<stations, observations, city, collisions, lastRun, cache>>

FilteredMonthlyTrend ==
    \E q \in GustRequests \cup {NoParams} :
        /\ response' = MonthlyTrendResponse(q)
        /\ UNCHANGED <<stations, observations, city, collisions, lastRun, cache>>

FilteredByHour ==
    \E q \in GustRequests \cup {NoParams} :
        /\ response' = ByHourResponse(q)
        /\ UNCHANGED <<stations, observations, city, collisions, lastRun, cache>>

FilteredWeekday ==
    \E q \in GustRequests \cup {NoParams} :
        /\ response' = WeekdayResponse(q)
        /\ UNCHANGED <<stations, observations, city, collisions, lastRun, cache>>

FilteredQuadrantShare ==
    \E q \in GustRequests \cup {NoParams} :
        /\ response' = QuadrantShareResponse(q)
        /\ UNCHANGED <<stations, observations, city, collisions, lastRun, cache>>

FilteredTopIntersections ==
    \E q \in GustRequests \cup {NoParams} :
        /\ response' \in TopIntersectionsResponses(q)
        /\ UNCHANGED <<stations, observations, city, collisions, lastRun, cache>>

FilteredByWeather ==
    \E q \in GustRequests \cup {NoParams} :
        /\ response' = ByWeatherResponse(q)
        /\ UNCHANGED <<stations, observations, city, collisions, lastRun, cache>>

FilteredNear ==
    \E q \in GustRequests \cup {NoParams} :
        /\ response' \in NearResponses([AtCentre(q) EXCEPT !.radius_km = Num(10000000)])
        /\ UNCHANGED <<stations, observations, city, collisions, lastRun, cache>>

NextFilter ==
    \/ FilteredList
    \/ FilteredMonthlyTrend
    \/ FilteredByHour
    \/ FilteredWeekday
    \/ FilteredQuadrantShare
    \/ FilteredTopIntersections
    \/ FilteredByWeather
    \/ FilteredNear

SpecFilter == InitFilter /\ [][NextFilter]_vars

\* ------------------------------------------------------------------------
\* The transaction specification: an ingestion run row by row inside
\* transaction.atomic(), with queries answered while it runs
\* ------------------------------------------------------------------------
\* The tables as the other connections see them.
Tables == [st |-> stations, ob |-> observations, cw |-> city, co |-> collisions]

\* transaction.atomic().__exit__: roll back to the state at entry when the
\* block raised, commit the block's writes otherwise.
AtomicExitMutant(before, work, raised) == work

AtomicExit(before, work, raised) == IF raised THEN before ELSE work

TxnWeatherFiles ==
    { <<SeedWeatherFile>>,
      << <<SeedWeatherFile[1]>>, <<SeedWeatherFile[3], SeedWeatherFile[2]>> >> }

TxnCollisionFiles ==
    { <<SubSeq(SeedCollisionRows, 1, 2)>>,
      << <<SeedCollisionRows[3]>>, <<SeedCollisionRows[4]>> >> }

\* The distinct observation dates in ascending order.
DatesInOrder(obs) ==
    LET dates == {o.date : o \in obs}
    IN CHOOSE s \in [1..Cardinality(dates) -> dates] :
         \A i, j \in 1..Cardinality(dates) : i < j => s[i] < s[j]

InitTxn ==
    /\ stations = {}
    /\ observations = {}
    /\ city = {}
    /\ collisions = {}
    /\ lastRun = [cmd |-> "none", phase |-> "idle",
                  before |-> [st |-> {}, ob |-> {}, cw |-> {}, co |-> {}],
                  work |-> [st |-> {}, ob |-> {}, cw |-> {}, co |-> {}], todo |-> <<>>]
    /\ response = NoResponse
    /\ cache = NoCache

\* A command enters its atomic block.
BeginRun ==
    /\ lastRun.phase # "running"
    /\ \E cmd \in {"load_weather", "load_collisions", "build_city_weather"} :
         \E todo \in CASE cmd = "load_weather" -> TxnWeatherFiles
                       [] cmd = "load_collisions" -> TxnCollisionFiles
                       [] cmd = "build_city_weather" -> {<<DatesInOrder(observations)>>} :
           lastRun' = [cmd |-> cmd, phase |-> "running", before |-> Tables, work |-> Tables,
                       todo |-> todo]
    /\ UNCHANGED <<stations, observations, city, collisions, response, cache>>

\* The next row of the current file, or the next date, is processed inside
\* the block; a file that is used up is closed.
RunStep ==
    /\ lastRun.phase = "running"
    /\ lastRun.todo # <<>>
    /\ LET file == Head(lastRun.todo)
           w == lastRun.work
       IN IF file = <<>> THEN lastRun' = [lastRun EXCEPT !.todo = Tail(@)]
          ELSE LET item == Head(file)
                   rest == <<Tail(file)>> \o Tail(lastRun.todo)
                   w2 == CASE lastRun.cmd = "load_weather" ->
                                LET db == WeatherRowStep([st |-> w.st, ob |-> w.ob], item)
                                IN [w EXCEPT !.st = db.st, !.ob = db.ob]
                           [] lastRun.cmd = "load_collisions" ->
                                [w EXCEPT !.co =
                                   CollisionRowStep([co |-> w.co, created |-> 0, updated |-> 0,
                                                     skipped |-> 0, skip_reasons |-> NoSkips],
                                                    w.st, item).co]
                           [] lastRun.cmd = "build_city_weather" ->
                                [w EXCEPT !.cw = BuildCityRows(w.cw, w.ob, {item})]
               IN lastRun' = [lastRun EXCEPT !.work = w2, !.todo = rest]
    /\ UNCHANGED <<stations, observations, city, collisions, response, cache>>

Exit(raised, phase) ==
    LET t == AtomicExit(lastRun.before, lastRun.work, raised)
    IN /\ stations' = t.st
       /\ observations' = t.ob
       /\ city' = t.cw
       /\ collisions' = t.co
       /\ lastRun' = [lastRun EXCEPT !.phase = phase]
       /\ UNCHANGED <<response, cache>>

\* The block ends after the last file.
RunCommits ==
    /\ lastRun.phase = "running"
    /\ lastRun.todo = <<>>
    /\ Exit(FALSE, "committed")

\* Reading a file or a statement raises (an I/O, decoding or database
\* error) at any point of the block.
RunFails ==
    /\ lastRun.phase = "running"
    /\ Exit(TRUE, "rolled back")

\* A query on another connection, at any time.
QueryDuringRun ==
    /\ response' \in {MonthlyTrendResponse(NoParams), ByWeatherResponse(NoParams)}
    /\ UNCHANGED <<stations, observations, city, collisions, lastRun, cache>>

NextTxn ==
    \/ BeginRun
    \/ RunStep
    \/ RunCommits
    \/ RunFails
    \/ QueryDuringRun

SpecTxn == InitTxn /\ [][NextTxn]_vars

\* ------------------------------------------------------------------------
\* The cache specification: the stats views and the near search behind
\* cache_page(60), with collision loads between the requests
\* ------------------------------------------------------------------------
\* cache is a set of [view, q, page]: the page stored for a request URL.
\* cache_page around dispatch: a stored page of the same URL is returned
\* as it is; otherwise the view answers, one of the responses in fresh, and
\* an answer with status 200 is stored.
CachedDispatch(view, q, fresh) ==
    LET hit == {e \in cache : e.view = view /\ e.q = q}
    IN IF hit # {}
       THEN /\ response' \in {e.page : e \in hit}
            /\ cache' = cache
       ELSE \E r \in fresh :
              /\ response' = r
              /\ cache' = IF r.status = 200
                          THEN cache \cup {[view |-> view, q |-> q, page |-> r]}
                          ELSE cache

NearAtCentre == [AtCentre(NoParams) EXCEPT !.radius_km = Num(10000000)]

CacheLoadFiles == { <<<<SeedCollisionRows[1]>>>>, <<<<SeedCollisionRows[2]>>>> }

InitCache ==
    LET db == Seeded(<<>>)
    IN
      /\ stations = db.st
      /\ observations = db.ob
      /\ city = db.cw
      /\ collisions = db.co
      /\ lastRun = [NoRun EXCEPT !.cmd = "build_city_weather"]
      /\ response = NoResponse
      /\ cache = NoCache

CachedMonthlyTrend ==
    /\ CachedDispatch("monthly-trend", NoParams, {MonthlyTrendResponse(NoParams)})
    /\ UNCHANGED <<stations, observations, city, collisions, lastRun>>

CachedQuadrantShare ==
    /\ CachedDispatch("quadrant-share", NoParams, {QuadrantShareResponse(NoParams)})
    /\ UNCHANGED <<stations, observations, city, collisions, lastRun>>

CachedNear ==
    /\ CachedDispatch("near", NearAtCentre, NearResponses(NearAtCentre))
    /\ UNCHANGED <<stations, observations, city, collisions, lastRun>>

\* Sixty seconds after it was stored a page is gone.
PageExpires ==
    /\ \E e \in cache : cache' = cache \ {e}
    /\ UNCHANGED <<stations, observations, city, collisions, lastRun, response>>

\* A load_collisions run commits.
LoadCommitted ==
    \E files \in CacheLoadFiles :
        LET r == LoadCollisionsResult(collisions, stations, files)
        IN /\ collisions' = r.co
           /\ lastRun' = [cmd |-> "load_collisions", created |-> r.created,
                          updated |-> r.updated, skipped |-> r.skipped,
                          skip_reasons |-> r.skip_reasons]
           /\ UNCHANGED <<stations, observations, city, response, cache>>

NextCache ==
    \/ CachedMonthlyTrend
    \/ CachedQuadrantShare
    \/ CachedNear
    \/ PageExpires
    \/ LoadCommitted

SpecCache == InitCache /\ [][NextCache]_vars

\* ------------------------------------------------------------------------
\* The derivation specification: load_weather on one station-day row with
\* every kind of reading
\* ------------------------------------------------------------------------
DeriveRowSet ==
    {WRow("A", "Airport", Num(-114010000), Num(51120000), Iso(10),
          t_max, t_min, precip, snow, Cell("empty")) :
       t_max \in {Num(10), Cell("M")},
       t_min \in {Cell("M"), Cell("empty"), Num(-50), Num(-1), Num(0), Num(20)},
       precip \in {Cell("M"), Cell("empty"), Cell("junk"), Cell("T"),
                   Num(0), Num(1), Num(2), Num(12)},
       snow \in {Cell("M"), Cell("empty"), Cell("T"), Num(0), Num(20)}}

InitDerive ==
    /\ stations = {}
    /\ observations = {}
    /\ city = {}
    /\ collisions = {}
    /\ lastRun = NoRun
    /\ response = NoResponse
    /\ cache = NoCache

\* A load_weather run on one file of one row.
LoadWeatherRow ==
    \E row \in DeriveRowSet :
        LET db == LoadWeatherResult(stations, observations, <<<<row>>>>)
        IN /\ stations' = db.st
           /\ observations' = db.ob
           /\ lastRun' = [cmd |-> "load_weather", row |-> row]
           /\ UNCHANGED <<city, collisions, response, cache>>

NextDerive == LoadWeatherRow

SpecDerive == InitDerive /\ [][NextDerive]_vars

\* ------------------------------------------------------------------------
\* The date specification: load_weather on files with rows whose date is
\* missing or malformed
\* ------------------------------------------------------------------------
MissingDate == [k |-> "empty", d |-> 0]

\* A good row of station A, a row of A with a malformed date, a row of A
\* with another name and place and no date, and a good row of station B.
DateRowSet ==
    { WRow("A", "Airport", Num(-114010000), Num(51120000), Iso(10),
           Num(10), Num(-5), Cell("T"), Num(0), Cell("empty")),
      WRow("A", "Airport", Num(-114010000), Num(51120000), BadDate,
           Num(10), Num(-50), Num(0), Num(0), Cell("empty")),
      WRow("A", "Airport Intl", Num(-114020000), Num(51130000), MissingDate,
           Num(10), Num(-50), Num(0), Num(0), Cell("empty")),
      WRow("B", "University", Num(-114070000), Num(51050000), Iso(11),
           Num(40), Num(20), Num(12), Num(0), Num(657)) }

DateInputs == FileLists(DateRowSet)

LoadWeatherDates ==
    \E files \in DateInputs :
        LET db == LoadWeatherResult(stations, observations, files)
        IN /\ stations' = db.st
           /\ observations' = db.ob
           /\ lastRun' = [cmd |-> "load_weather", files |-> files]
           /\ UNCHANGED <<city, collisions, response, cache>>

NextDates == LoadWeatherDates

SpecDates == InitDerive /\ [][NextDates]_vars

\* ------------------------------------------------------------------------
\* The count specification: load_collisions on good rows with every kind of
\* Count cell
\* ------------------------------------------------------------------------
CountCells == {Cell("empty"), Cell("junk"), Num(-1), Num(0), Num(1), Num(2)}

CountRow(id, count) ==
    CRow(id, Num(-114055175), Num(51048016), Dt("primary", 10, 8), Dt("empty", 0, 0),
         count, "NE", "Loc A")

\* One incident with every kind of cell, a second one with the numbers.
CountRowSet ==
    {CountRow("G1", count) : count \in CountCells}
      \cup {CountRow("G2", count) : count \in {Num(0), Num(1), Num(2)}}

CountInputs == {<<f>> : f \in SeqsUpTo(CountRowSet, MaxBatch)}

LoadCollisionCounts ==
    \E files \in CountInputs :
        LET r == LoadCollisionsResult(collisions, stations, files)
        IN /\ collisions' = r.co
           /\ lastRun' = [cmd |-> "load_collisions", created |-> r.created,
                          updated |-> r.updated, skipped |-> r.skipped,
                          skip_reasons |-> r.skip_reasons]
           /\ UNCHANGED <<stations, observations, city, response, cache>>

NextCount == LoadCollisionCounts

SpecCount == InitLoad /\ [][NextCount]_vars

\* ------------------------------------------------------------------------
\* Query claims
\* ------------------------------------------------------------------------
\* The date a request supplies under exactly one of the two names of a
\* bound, None when it supplies none.
Supplied(alias, name) ==
    IF alias.k = "iso" /\ name.k = "absent" THEN Some(alias.d)
    ELSE IF name.k = "iso" /\ alias.k = "absent" THEN Some(name.d)
    ELSE None

Answered == response.view # "none" /\ response.status = 200

\* C1: an answered request that supplies from <= to under either pair of
\* names returns or aggregates only collisions dated within the bounds it
\* supplies; a request with one bound has only that bound applied.
C1_DateRangeApplied ==
    Answered =>
      LET lo == Supplied(response.q.from, response.q.from_date)
          hi == Supplied(response.q.to, response.q.to_date)
      IN ((lo # None /\ hi # None) => lo[1] <= hi[1])
           => \A c \in response.qs :
                 /\ lo # None => lo[1] <= c.date
                 /\ hi # None => c.date <= hi[1]

\* C2: a request on any query endpoint whose from date is later than its to
\* date, or whose from or to text is not a YYYY-MM-DD date, is answered
\* with status 400.
C2_BadDatesRejected ==
    response.view # "none" =>
      LET q == response.q
          lo == Supplied(q.from, q.from_date)
          hi == Supplied(q.to, q.to_date)
          malformed == \E s \in {q.from, q.from_date, q.to, q.to_date} :
                          s.k \in {"loose", "us", "bad"}
          inverted == lo # None /\ hi # None /\ lo[1] > hi[1]
      IN (malformed \/ inverted) => response.status = 400

\* ------------------------------------------------------------------------
\* Ingestion claims
\* ------------------------------------------------------------------------
\* C3: running an ingestion command a second time on the same input, with
\* nothing else in between, leaves every table as the first run left it.
C3_RerunChangesNothing ==
    [][ /\ \A files \in WeatherInputs :
              ( /\ lastRun'.cmd = "load_weather"
                /\ LoadWeatherResult(stations, observations, files)
                     = [st |-> stations', ob |-> observations'] )
              => LoadWeatherResult(stations', observations', files)
                     = [st |-> stations', ob |-> observations']
        /\ \A files \in CollisionInputs :
              ( /\ lastRun'.cmd = "load_collisions"
                /\ LoadCollisionsResult(collisions, stations, files).co = collisions' )
              => LoadCollisionsResult(collisions', stations', files).co = collisions'
        /\ lastRun'.cmd = "build_city_weather"
              => BuildCityWeatherResult(city', observations') = city'
      ]_vars

\* C4: every table holds at most one row per natural key: collision id,
\* (station, date), climate id, and date.
C4_NaturalKeysUnique ==
    /\ \A a, b \in collisions : a.collision_id = b.collision_id => a = b
    /\ \A a, b \in observations : (a.station = b.station /\ a.date = b.date) => a = b
    /\ \A a, b \in stations : a.climate_id = b.climate_id => a = b
    /\ \A a, b \in city : a.date = b.date => a = b

\* A collision load that updated a stored incident, with both weather tables
\* populated.
C4_Witness ==
    /\ lastRun.cmd = "load_collisions"
    /\ lastRun.updated > 0
    /\ Cardinality(collisions) = 2
    /\ Cardinality(observations) >= 2
    /\ city # {}

\* ------------------------------------------------------------------------
\* Aggregation claims
\* ------------------------------------------------------------------------
ObsOn(d) == {o \in observations : o.date = d}

CityRowsOn(d) == {r \in city : r.date = d}

JustBuilt == lastRun.cmd = "build_city_weather"

\* C5: after a build, every observed date is classified SNOWY if any station
\* has snow > 0, else WET if any station has precipitation >= 0.2, else DRY.
C5_CityClassification ==
    JustBuilt =>
        \A d \in {o.date : o \in observations} :
            /\ CityRowsOn(d) # {}
            /\ \A r \in CityRowsOn(d) :
                 r.weather_day_city =
                   IF \E o \in ObsOn(d) : o.total_snow_cm # None /\ o.total_snow_cm[1] > 0
                   THEN Some("SNY")
                   ELSE IF \E o \in ObsOn(d) : o.total_precip_mm # None /\ o.total_precip_mm[1] >= 2
                        THEN Some("WET")
                        ELSE Some("DRY")

\* A built day on which one station has snow and another has rain only.
C5_Witness ==
    /\ JustBuilt
    /\ \E o \in observations : o.total_snow_cm # None /\ o.total_snow_cm[1] > 0
    /\ \E o \in observations :
          /\ o.total_precip_mm # None /\ o.total_precip_mm[1] >= 2
          /\ ~(o.total_snow_cm # None /\ o.total_snow_cm[1] > 0)
    /\ \E r \in city : r.weather_day_city = Some("SNY")

\* C6: after a build, freeze_day_city is unset when no observation of the
\* date has a freeze flag, and otherwise true exactly when the true flags are
\* at least half of the known flags.
C6_FreezeMajority ==
    JustBuilt =>
        \A r \in city :
            LET known == {o \in ObsOn(r.date) : o.freeze_day # None}
                trues == {o \in known : o.freeze_day = Some(TRUE)}
            IN /\ known = {} => r.freeze_day_city = None
               /\ (known # {} /\ 2 * Cardinality(trues) >= Cardinality(known))
                     => r.freeze_day_city = Some(TRUE)
               /\ (known # {} /\ 2 * Cardinality(trues) < Cardinality(known))
                     => r.freeze_day_city = Some(FALSE)

\* A built day with an exact tie of freeze flags.
C6_Witness ==
    /\ JustBuilt
    /\ \E r \in city :
          /\ r.freeze_day_city = Some(TRUE)
          /\ Cardinality({o \in ObsOn(r.date) : o.freeze_day = Some(TRUE)}) = 1
          /\ Cardinality({o \in ObsOn(r.date) : o.freeze_day = Some(FALSE)}) = 1

\* C7: after a build, agreement_ratio is unset when no observation of the
\* date has a weather_day, and otherwise equals the number of observations
\* agreeing with the city classification over the number of classified
\* observations, a value between 0 and 1.
C7_AgreementRatio ==
    JustBuilt =>
        \A r \in city :
            LET classified == {o \in ObsOn(r.date) : o.weather_day # None}
                agreeing == {o \in classified : o.weather_day = r.weather_day_city}
            IN IF classified = {}
               THEN r.agreement_ratio = None
               ELSE /\ r.agreement_ratio # None
                    /\ r.agreement_ratio[1].num * Cardinality(classified)
                         = Cardinality(agreeing) * r.agreement_ratio[1].den
                    /\ r.agreement_ratio[1].den > 0
                    /\ 0 <= r.agreement_ratio[1].num
                    /\ r.agreement_ratio[1].num <= r.agreement_ratio[1].den

\* A built day where one of two classified stations agrees with the city and
\* a third observation-less or unclassified station does not count.
C7_Witness ==
    /\ JustBuilt
    /\ \E r \in city :
          /\ r.agreement_ratio # None
          /\ r.agreement_ratio[1].num = 1
          /\ r.agreement_ratio[1].den = 2

\* ------------------------------------------------------------------------
\* Near search and top-intersections claims
\* ------------------------------------------------------------------------
\* C8: in an answered near search every reported distance_km is at most the
\* echoed radius_km, the rows are in non-decreasing order of distance_km,
\* and their number is the reported count and at most the echoed limit.
C8_NearBoundedAndSorted ==
    (response.view = "near" /\ response.status = 200) =>
      LET out == response.results
      IN /\ \A i \in DOMAIN out : out[i].distance_km <= response.params.radius_km.v
         /\ \A i, j \in DOMAIN out : i < j => out[i].distance_km <= out[j].distance_km
         /\ Len(out) = response.count
         /\ Len(out) <= response.params.limit

\* C9: a near search with a valid centre is answered with the effective
\* radius echoed and used for the search: a number in (0, 10], which is 1.0
\* when radius_km is absent, unparseable or non-positive and
\* min(radius_km, 10) for a positive number; and with the effective limit,
\* 100 when absent or unparseable, else clamped to [1, 500].
C9_EffectiveRadiusAndLimit ==
    (response.view = "near" /\ ValidCenter(response.q)) =>
      LET q == response.q
          echoed == response.params.radius_km
          radius == IF q.radius_km.k = "num" /\ q.radius_km.v > 0
                    THEN (IF q.radius_km.v < 10000000 THEN q.radius_km.v ELSE 10000000)
                    ELSE 1000000
          limit == IF q.limit.k = "num"
                   THEN (IF q.limit.v < 1 THEN 1 ELSE IF q.limit.v > 500 THEN 500 ELSE q.limit.v)
                   ELSE 100
      IN /\ response.status = 200
         /\ echoed.k = "num" /\ 0 < echoed.v /\ echoed.v <= 10000000
         /\ q.radius_km.k # "nan" => echoed = Num(radius)
         /\ response.params.limit = limit
         /\ Len(response.results) <= limit
         /\ \A c \in response.qs :
               _haversine_km(q.lon.v, q.lat.v, c.longitude, c.latitude) <= echoed.v

\* C10: an answered top-intersections request echoes the effective limit
\* (10 when limit is absent or not an integer, else clamped to [1, 100]),
\* has at most that many rows, none with the empty intersection_key, in
\* order of total descending and, for equal totals, label ascending.
C10_TopIntersections ==
    (response.view = "top-intersections" /\ response.status = 200) =>
      LET tok == response.q.limit
          out == response.results
          limit == IF tok.k = "num"
                   THEN (IF tok.v < 1 THEN 1 ELSE IF tok.v > 100 THEN 100 ELSE tok.v)
                   ELSE 10
      IN /\ response.params.limit = limit
         /\ Len(out) <= limit
         /\ \A i \in DOMAIN out : out[i].intersection_key # <<>>
         /\ \A i, j \in DOMAIN out : i < j =>
               \/ out[i].total > out[j].total
               \/ /\ out[i].total = out[j].total
                  /\ TextRank[out[i].location_text] <= TextRank[out[j].location_text]

\* A request for more than the cap is answered with limit 100 while a
\* collision with a blank key is stored and two intersections tie on total.
C10_Witness ==
    /\ response.view = "top-intersections" /\ response.status = 200
    /\ response.q.limit = Num(5000)
    /\ response.params.limit = 100
    /\ \E c \in collisions : c.intersection_key = <<>>
    /\ Len(response.results) >= 2
    /\ response.results[1].total = response.results[2].total

\* ------------------------------------------------------------------------
\* Collision loader claims
\* ------------------------------------------------------------------------
RECURSIVE FlattenFiles(_)
FlattenFiles(files) ==
    IF files = <<>> THEN <<>> ELSE Head(files) \o FlattenFiles(Tail(files))

\* The first of the four checks a row fails, "pass" when it fails none, and
\* "other" when its coordinate text is not a number at all.
FirstFailingCheck(row) ==
    IF row.id = "" THEN "no_id"
    ELSE IF row.lon.k \in {"empty", "nan"} \/ row.lat.k \in {"empty", "nan"} THEN "invalid_coords"
    ELSE IF row.lon.k # "num" \/ row.lat.k # "num" THEN "other"
    ELSE IF ~in_bounds(row.lon.v, row.lat.v) THEN "out_of_bounds"
    ELSE IF row.start.k \notin {"primary", "fallback"} THEN "bad_start_dt"
    ELSE "pass"

CountRows(rows, P(_)) == Cardinality({i \in DOMAIN rows : P(rows[i])})

JustLoaded == "files" \in DOMAIN lastRun

\* The check tallies and the stored ids of a run over rows, where Stored(row)
\* says which rows are upserted.
RowsClassified(before, after, run, Stored(_)) ==
    LET rows == FlattenFiles(run.files)
        fails(reason) == CountRows(rows, LAMBDA r : FirstFailingCheck(r) = reason)
    IN /\ \A reason \in {"no_id", "invalid_coords", "out_of_bounds", "bad_start_dt"} :
            run.skip_reasons[reason] = fails(reason)
       /\ {c.collision_id : c \in after}
            = {c.collision_id : c \in before}
                \cup {rows[i].id : i \in {j \in DOMAIN rows : Stored(rows[j])}}
       /\ \A i \in DOMAIN rows :
            (Stored(rows[i]) /\ rows[i].count.k = "empty")
               => \E c \in after : c.collision_id = rows[i].id /\ c.count = 1
       /\ run.created + run.updated = CountRows(rows, Stored)

PassesChecks(row) == FirstFailingCheck(row) = "pass"

PassesAndSaves(row) ==
    FirstFailingCheck(row) = "pass" /\ ~(row.count.k = "num" /\ row.count.v < 0)

RowRaises(row) ==
    /\ row.id # ""
    /\ \/ row.lon.k = "junk"
       \/ row.lat.k = "junk"
       \/ FirstFailingCheck(row) = "pass" /\ row.count.k = "num" /\ row.count.v < 0

WithoutRaising(files) ==
    [i \in DOMAIN files |-> SelectSeq(files[i], LAMBDA row : ~RowRaises(row))]

\* C12: a run over files with rows that raise counts each of them under
\* exception and otherwise ends as the run over the same files without
\* those rows: same stored collisions, same created and updated counts,
\* same tallies of the other reasons.
C12_RaisingRowSkipped ==
    [][JustLoaded' =>
         LET files == lastRun'.files
             raising == CountRows(FlattenFiles(files), RowRaises)
             clean == LoadCollisionsResult(collisions, stations, WithoutRaising(files))
         IN /\ collisions' = clean.co
            /\ lastRun'.created = clean.created
            /\ lastRun'.updated = clean.updated
            /\ lastRun'.skip_reasons.exception = raising
            /\ lastRun'.skipped = clean.skipped + raising
            /\ \A reason \in {"no_id", "invalid_coords", "out_of_bounds", "bad_start_dt"} :
                  lastRun'.skip_reasons[reason] = clean.skip_reasons[reason]]_vars

\* A run in which a raising row precedes a good row of the same file and
\* the good row is created.
C12_Witness ==
    /\ JustLoaded
    /\ lastRun.skip_reasons.exception >= 1
    /\ lastRun.created = 1
    /\ \E f \in DOMAIN lastRun.files : \E i, j \in DOMAIN lastRun.files[f] :
          i < j /\ RowRaises(lastRun.files[f][i]) /\ PassesAndSaves(lastRun.files[f][j])

\* ------------------------------------------------------------------------
\* Filter claims
\* ------------------------------------------------------------------------
\* The response to the request of the last response without parameter p.
WithoutParam(p, absent) ==
    CHOOSE r \in ViewResponses(response.view, [response.q EXCEPT ![p] = absent]) : TRUE

FilterViews ==
    {"list", "monthly-trend", "by-hour", "weekday", "quadrant-share", "by-weather"}

\* The request texts that read as true and as false once blanks around them
\* are dropped and letter case is ignored.
TrueTokens == {"1", "Yes", " TRUE ", "y"}

FalseTokens == {"0", "No", "f"}

CityFlag ==
    [freeze_day_city |-> "freeze_day_city", heavy_rain |-> "precip_any",
     heavy_snow |-> "snow_any"]

HasCityFlag(c, flag, v) == \E r \in city : r.date = c.date /\ r[flag] = Some(v)

\* C13: freeze_day_city, heavy_rain and heavy_snow with a true token return
\* exactly the collisions whose date has a city row with the flag true, with
\* a false token those whose flag is false, and with any other token the
\* result of the request without the parameter.
C13_BooleanFilters ==
    response.view = "list" =>
      \A p \in DOMAIN CityFlag :
        response.q[p].k = "text" =>
          LET tok == response.q[p].v
              base == WithoutParam(p, NoText).qs
          IN /\ response.status = 200
             /\ response.qs =
                  IF tok \in TrueTokens THEN {c \in base : HasCityFlag(c, CityFlag[p], TRUE)}
                  ELSE IF tok \in FalseTokens THEN {c \in base : HasCityFlag(c, CityFlag[p], FALSE)}
                  ELSE base

\* A false token that keeps a collision and leaves out one whose day has a
\* city row with the flag unset.
C13_Witness ==
    /\ response.view = "list"
    /\ response.q.freeze_day_city.k = "text"
    /\ response.q.freeze_day_city.v \in FalseTokens
    /\ response.qs # {}
    /\ \E c \in collisions \ response.qs :
         \E r \in city : r.date = c.date /\ r.freeze_day_city = None

DayTokens == [dry |-> WeatherDay.DRY, DRY |-> WeatherDay.DRY, Wet |-> WeatherDay.WET]
               @@ (" Snowy" :> WeatherDay.SNOWY)

\* C14: weather_day_city with dry, wet or snowy in any letter case returns
\* exactly the collisions whose date has a city row of that classification;
\* any other token is answered as the request without the parameter.
C14_WeatherDayFilter ==
    (response.view = "list" /\ response.q.weather_day_city.k = "text") =>
      LET tok == response.q.weather_day_city.v
          base == WithoutParam("weather_day_city", NoText).qs
      IN /\ response.status = 200
         /\ response.qs =
              IF tok \in DOMAIN DayTokens
              THEN {c \in base : \E r \in city :
                      r.date = c.date /\ r.weather_day_city = Some(DayTokens[tok])}
              ELSE base

\* An upper-case token that keeps some collisions and leaves out others.
C14_Witness ==
    /\ response.view = "list"
    /\ response.q.weather_day_city = Txt("DRY")
    /\ response.qs # {}
    /\ response.qs # collisions

\* C15: a numeric gust_min = t returns exactly the collisions with a nearest
\* station that has an observation on the collision's date with a known gust
\* speed >= t.
C15_GustFilter ==
    (response.view \in FilterViews /\ response.q.gust_min.k = "num") =>
      LET t == response.q.gust_min.v
          base == WithoutParam("gust_min", Cell("absent")).qs
      IN /\ response.status = 200
         /\ response.qs =
              {c \in base :
                 /\ c.nearest_station # None
                 /\ \E o \in observations :
                      /\ o.station = c.nearest_station[1]
                      /\ o.date = c.date
                      /\ o.gust_kmh # None
                      /\ o.gust_kmh[1] * 10 >= t}

\* A threshold that keeps a collision and leaves out one whose station
\* recorded a weaker gust that day while another station recorded a stronger
\* one.
C15_Witness ==
    /\ response.view = "list"
    /\ response.q.gust_min = Num(300)
    /\ response.qs # {}
    /\ \E c \in collisions \ response.qs : \E o, p \in observations :
         /\ Some(o.station) = c.nearest_station /\ o.date = c.date
         /\ o.gust_kmh # None /\ o.gust_kmh[1] * 10 < 300
         /\ p.date = c.date /\ p.gust_kmh # None /\ p.gust_kmh[1] * 10 >= 300

\* The last response as the answer to its request without gust_min.
SameAsWithoutGust ==
    \E r \in ViewResponses(response.view, [response.q EXCEPT !.gust_min = Cell("absent")]) :
        [r EXCEPT !.q = response.q] = response

NotANumber == {"junk", "nan"}

\* C16 as stated: a gust_min that is not a number is a no-op on every query
\* endpoint, the list included: the request succeeds with the result of the
\* request without gust_min.
C16_AsStated ==
    (response.view # "none" /\ response.q.gust_min.k \in NotANumber) =>
        response.status = 200 /\ SameAsWithoutGust

\* C16: a gust_min that is not a number is a no-op on the stats views and
\* the near search: the request succeeds with the result of the request
\* without gust_min.
C16_GustNoOpOnStatsAndNear ==
    (response.view \in StatsViews \cup {"near"} /\ response.q.gust_min.k \in NotANumber) =>
        response.status = 200 /\ SameAsWithoutGust

\* A stats answer to a gust_min that is not a number which counts a
\* collision no numeric threshold would keep.
C16_Witness ==
    /\ response.view = "monthly-trend"
    /\ response.q.gust_min.k = "junk"
    /\ response.status = 200
    /\ \E c \in response.qs :
         ~\E o \in observations : Some(o.station) = c.nearest_station /\ o.date = c.date

\* C17: the list rejects a gust_min that is not a number with status 400.
C17_ListRejectsBadGust ==
    (response.view = "list" /\ response.q.gust_min.k \in NotANumber) =>
        response.status = 400

\* A list request with a gust_min that is not a number on a database that
\* holds collisions.
C17_Witness ==
    /\ response.view = "list"
    /\ response.q.gust_min.k = "junk"
    /\ collisions # {}
    /\ response.status = 400

StoredQuadrantCodes ==
    {Quadrant.NE, Quadrant.NW, Quadrant.SE, Quadrant.SW, Quadrant.UNKNOWN}

\* C18: the list rejects a quadrant that is none of the stored quadrant
\* codes with status 400.
C18_BadQuadrantRejected ==
    (/\ response.view = "list"
     /\ response.q.quadrant.k = "text"
     /\ response.q.quadrant.v \notin StoredQuadrantCodes \cup {""}) =>
        response.status = 400

\* Letter case folded, and the texts each station name contains, for the
\* station tokens of the requests.
FoldCase == ("A" :> "a") @@ ("B" :> "b") @@ ("air" :> "air") @@ ("univ" :> "univ")

NameContains == ("Airport" :> {"a", "air"}) @@ ("University" :> {"univ"})

\* C19: the station filter with an all-digit token returns exactly the
\* collisions whose nearest station has that id; with another non-empty
\* token those whose nearest station's climate id equals the token or whose
\* name contains it, letter case ignored; an empty token is a no-op.
C19_StationFilter ==
    (response.view = "list" /\ response.q.station.k = "text") =>
      LET tok == response.q.station.v
          base == WithoutParam("station", NoText).qs
      IN /\ response.status = 200
         /\ response.qs =
              IF tok = "" THEN base
              ELSE IF tok \in DOMAIN StationDigits
              THEN {c \in base : c.nearest_station = Some(StationDigits[tok])}
              ELSE {c \in base : \E st \in stations :
                      /\ Some(st.id) = c.nearest_station
                      /\ \/ FoldCase[st.climate_id] = FoldCase[tok]
                         \/ FoldCase[tok] \in NameContains[st.name]}

\* ------------------------------------------------------------------------
\* Stats claims
\* ------------------------------------------------------------------------
\* The sum of the count field over a set of collisions.
RECURSIVE TotalCount(_)
TotalCount(S) ==
    IF S = {} THEN 0
    ELSE LET x == CHOOSE y \in S : TRUE
         IN x.count + TotalCount(S \ {x})

RECURSIVE SumTotals(_, _)
SumTotals(f, D) ==
    IF D = {} THEN 0
    ELSE LET v == CHOOSE y \in D : TRUE
         IN f[v] + SumTotals(f, D \ {v})

\* The field a view groups by and the fixed domain it reports.
GroupedBy ==
    [x \in {"monthly-trend", "by-hour", "weekday", "quadrant-share"} |->
       CASE x = "monthly-trend" -> [field |-> "month", domain |-> 1..12]
         [] x = "by-hour" -> [field |-> "hour", domain |-> 0..23]
         [] x = "weekday" -> [field |-> "weekday", domain |-> 0..6]
         [] x = "quadrant-share" -> [field |-> "quadrant", domain |-> StoredQuadrantCodes]]

\* C20: the monthly, hourly (no commute), weekday and quadrant views report
\* one total per value of their fixed domain, the sum of count over the
\* filtered collisions with that value (0 when there are none), and the
\* totals add up to the sum of count over the filtered set.
C20_ZeroFilledTotals ==
    (/\ response.view \in DOMAIN GroupedBy
     /\ response.status = 200
     /\ response.q.commute.k = "absent") =>
      LET g == GroupedBy[response.view]
      IN /\ response.qs = _filtered_collisions(response.q)
         /\ DOMAIN response.results = g.domain
         /\ \A v \in g.domain :
              response.results[v] = TotalCount({c \in response.qs : c[g.field] = v})
         /\ SumTotals(response.results, g.domain) = TotalCount(response.qs)

\* A quadrant answer over several collisions, one of them standing for more
\* than one incident, with a quadrant that has none.
C20_Witness ==
    /\ response.view = "quadrant-share"
    /\ response.status = 200
    /\ Cardinality(response.qs) >= 2
    /\ \E c \in response.qs : c.count > 1
    /\ \E v \in StoredQuadrantCodes : response.results[v] = 0
    /\ \E v \in StoredQuadrantCodes : response.results[v] > 1

WeatherBuckets == {WeatherDay.DRY, WeatherDay.WET, WeatherDay.SNOWY}

\* C21: the by-weather view reports exactly the buckets DRY, WET and SNOWY,
\* each the sum of count over the filtered collisions whose date has a city
\* row of that classification; collisions of other dates are in no bucket,
\* so the three totals add up to at most the total of the filtered set.
C21_ByWeatherBuckets ==
    (response.view = "by-weather" /\ response.status = 200) =>
      /\ response.qs = _filtered_collisions(response.q)
      /\ DOMAIN response.results = WeatherBuckets
      /\ \A k \in WeatherBuckets :
           response.results[k] =
             TotalCount({c \in response.qs : \E r \in city :
                           r.date = c.date /\ r.weather_day_city = Some(k)})
      /\ SumTotals(response.results, WeatherBuckets) <= TotalCount(response.qs)

\* An answer with two buckets filled, one of them by a collision that stands
\* for several incidents, over a set with a collision on a day that has no
\* city row.
C21_Witness ==
    /\ response.view = "by-weather"
    /\ response.status = 200
    /\ Cardinality({k \in WeatherBuckets : response.results[k] > 0}) >= 2
    /\ \E c \in response.qs : c.count > 1 /\ \E r \in city : r.date = c.date
    /\ \E c \in response.qs : ~\E r \in city : r.date = c.date

\* ------------------------------------------------------------------------
\* Transaction claims
\* ------------------------------------------------------------------------
\* C22: while an ingestion run is inside its block the tables the queries
\* read stay as they were when the run started and every query is answered
\* from them; when the run fails, every table is left in that state.
C22_FailedRunLeavesNothing ==
    [][lastRun.phase = "running" =>
         /\ Tables = lastRun.before
         /\ lastRun'.phase \in {"running", "rolled back"} => Tables' = lastRun.before
         /\ response' # response =>
              /\ response'.qs = lastRun.before.co
              /\ response' \in {MonthlyTrendResponse(NoParams), ByWeatherResponse(NoParams)}]_vars

\* A collision load that failed with a file still to read, after it had
\* upserted rows of an earlier file.
C22_Witness ==
    /\ lastRun.cmd = "load_collisions"
    /\ lastRun.phase = "rolled back"
    /\ Len(lastRun.todo) = 1 /\ lastRun.todo[1] # <<>>
    /\ lastRun.work.co # lastRun.before.co
    /\ Tables = lastRun.before

\* C23: the stats views and the near search keep nothing between requests:
\* every response is the view's answer to the request's parameters on the
\* tables as they are when the request is made.
C23_NoCrossRequestState ==
    [][response' # response =>
         response' \in ViewResponses(response'.view, response'.q)]_vars

\* ------------------------------------------------------------------------
\* Weather loader claims
\* ------------------------------------------------------------------------
\* A reading is known when its cell is a number or the trace sentinel,
\* which stands for 0.
Known(cell) == cell.k \in {"num", "T"}

Reading(cell) == IF cell.k = "T" THEN 0 ELSE cell.v

RowLoaded == lastRun.cmd = "load_weather" /\ "row" \in DOMAIN lastRun

\* C24: the observation stored for a row has weather_day SNOWY when snow is
\* known and > 0, else WET when precipitation is known and >= 0.2, else DRY
\* when both are known and 0, else unset; freeze_day is minimum < 0 when the
\* minimum temperature is known and unset otherwise.
C24_DerivedFields ==
    RowLoaded =>
      LET row == lastRun.row
      IN \A o \in {x \in observations : x.date = row.date.d} :
           /\ o.weather_day =
                IF Known(row.snow) /\ Reading(row.snow) > 0 THEN Some(WeatherDay.SNOWY)
                ELSE IF Known(row.precip) /\ Reading(row.precip) >= 2 THEN Some(WeatherDay.WET)
                ELSE IF /\ Known(row.precip) /\ Reading(row.precip) = 0
                        /\ Known(row.snow) /\ Reading(row.snow) = 0
                     THEN Some(WeatherDay.DRY)
                ELSE None
           /\ o.freeze_day =
                IF Known(row.t_min) THEN Some(Reading(row.t_min) < 0) ELSE None

\* A stored row with trace precipitation, no snow and a minimum below zero:
\* a dry freezing day.
C24_Witness ==
    /\ RowLoaded
    /\ lastRun.row.precip.k = "T"
    /\ lastRun.row.snow = Num(0)
    /\ lastRun.row.t_min = Num(-1)
    /\ \E o \in observations :
         o.weather_day = Some(WeatherDay.DRY) /\ o.freeze_day = Some(TRUE)

RECURSIVE WithDates(_)
WithDates(rows) ==
    IF rows = <<>> THEN <<>>
    ELSE IF Head(rows).date.k = "iso" THEN <<Head(rows)>> \o WithDates(Tail(rows))
    ELSE WithDates(Tail(rows))

\* C25: a weather row with a missing or malformed date is skipped as a
\* whole: a run leaves the stations and observations that the same run
\* leaves when those rows are taken out of its files, so such a row creates
\* or changes no observation and no station and the rows after it are
\* processed.
C25_DatelessRowSkipped ==
    [][(lastRun'.cmd = "load_weather" /\ "files" \in DOMAIN lastRun') =>
         [st |-> stations', ob |-> observations'] =
           LoadWeatherResult(stations, observations,
                             [i \in DOMAIN lastRun'.files |-> WithDates(lastRun'.files[i])])]_vars

\* ------------------------------------------------------------------------
\* Collision loader claims
\* ------------------------------------------------------------------------
\* C26: every stored collision has count >= 1, whatever the Count cell of
\* its source row was.
C26_CountAtLeastOne == \A c \in collisions : c.count >= 1

\* C27: every collision a load_collisions run creates or rewrites carries a
\* nearest station whose haversine distance to the collision is minimal
\* among the stations existing during the run, and none exactly when no
\* station exists.
C27_NearestStation ==
    [][\A c \in collisions' \ collisions :
         IF stations = {} THEN c.nearest_station = None
         ELSE /\ c.nearest_station # None
              /\ \E s \in stations :
                   /\ s.id = c.nearest_station[1]
                   /\ \A t \in stations :
                        haversine_km(c.longitude, c.latitude, s.longitude, s.latitude)
                          <= haversine_km(c.longitude, c.latitude, t.longitude, t.latitude)]_vars

\* A run has stored a collision whose nearest station is not the first of
\* two stations, next to a collision stored while no station existed.
C27_Witness ==
    /\ lastRun.cmd = "load_collisions"
    /\ \E c \in collisions : \E s1, s2 \in stations :
         s1.id < s2.id /\ c.nearest_station = Some(s2.id)
    /\ \E c \in collisions : c.nearest_station = None

\* ------------------------------------------------------------------------
\* Aggregator claims
\* ------------------------------------------------------------------------
\* C28: after any sequence of load_weather and build_city_weather runs the
\* date of every city row is the date of some observation, and right after
\* a build_city_weather run every observation date has exactly one city row.
C28_CityRowsFollowObservations ==
    /\ \A cw \in city : \E o \in observations : o.date = cw.date
    /\ lastRun.cmd = "build_city_weather" =>
         \A o \in observations : Cardinality({cw \in city : cw.date = o.date}) = 1

\* A build has run over three observations of two dates, two of them of
\* the same date.
C28_Witness ==
    /\ lastRun.cmd = "build_city_weather"
    /\ Cardinality(observations) = 3
    /\ Cardinality(city) = 2
    /\ \E o1, o2 \in observations : o1 # o2 /\ o1.date = o2.date

\* ------------------------------------------------------------------------
\* Bounding box claim
\* ------------------------------------------------------------------------
CentreDistance(q, c) == _haversine_km(q.lon.v, q.lat.v, c.longitude, c.latitude)

\* C29: the bounding box removes no collision within the radius: an answered
\* near search returns every filtered collision whose haversine distance to
\* the centre is at most the effective radius, or, when there are more than
\* limit of them, limit collisions none of which is farther than one left
\* out.
C29_BoxKeepsRadius ==
    (response.view = "near" /\ response.status = 200
       /\ response.params.radius_km.k = "num") =>
      LET q == response.q
          within == {c \in _filtered_collisions(q) :
                       CentreDistance(q, c) <= response.params.radius_km.v}
          returned == {c \in within : \E i \in DOMAIN response.results :
                                        response.results[i].collision_id = c.collision_id}
      IN IF Cardinality(within) <= response.params.limit
         THEN returned = within
         ELSE /\ Cardinality(returned) = response.params.limit
              /\ \A r \in returned : \A w \in within \ returned :
                   CentreDistance(q, r) <= CentreDistance(q, w)

\* ------------------------------------------------------------------------
\* Run report claim
\* ------------------------------------------------------------------------
\* C30: at the end of a load_collisions run the reported skipped count is
\* the sum of the five skip-reason counters, and created + updated +
\* skipped is the number of data rows of all files of the run.
C30_ReportAddsUp ==
    JustLoaded =>
      /\ lastRun.skipped =
           lastRun.skip_reasons.no_id + lastRun.skip_reasons.invalid_coords
             + lastRun.skip_reasons.out_of_bounds + lastRun.skip_reasons.bad_start_dt
             + lastRun.skip_reasons.exception
      /\ lastRun.created + lastRun.updated + lastRun.skipped
           = Len(FlattenFiles(lastRun.files))

\* A run over two files of one row each: the first row is skipped, the
\* second one rewrites a stored collision.
C30_Witness ==
    /\ JustLoaded
    /\ Len(lastRun.files) = 2
    /\ lastRun.skipped = 1
    /\ lastRun.updated = 1
    /\ ~PassesAndSaves(lastRun.files[1][1])

====
